---- MODULE Spec2Model ----
(***************************************************************************)
(* A model of the tier scheduler of aaisp-exporter: the CollectorManager   *)
(* (collectors/manager.py), the collect() wrapper of MetricCollector       *)
(* (collectors/base.py) and the registry they are built from; of the       *)
(* per-entity collectors (collectors/broadband.py, telephony.py); and of   *)
(* the API client with its concurrency limiter (api/client.py).            *)
(*                                                                         *)
(* asyncio is modelled at the granularity of its suspension points: every  *)
(* action is one run of a coroutine from one await to the next.            *)
(***************************************************************************)
EXTENDS Integers, Sequences, FiniteSets, TLC

(***************************************************************************)
(* Bounds of the model.                                                    *)
(***************************************************************************)
\* how many collector constructors succeed in _initialize_collectors
MaxCollectors == 2
\* how many times start() takes the manager from not running to running
MaxStarts == 2
\* the largest value time.time() takes: it moves on with every sleep that ends
MaxClock == 2
\* how many collect() calls run to their end; the others stay in flight
MaxCollects == 2
\* how many service ids a listing call returns at most
MaxServices == 2
\* how many times collect() of the collector under study is called
MaxRuns == 2
\* how many tasks (collect() calls of any collector and tier) use the client
MaxCallers == 2
\* how many times request() is called from outside, over all callers
MaxRequests == 3
\* the numbers a field of an answer is given, in value: -MaxValue .. MaxValue
MaxValue == 30

(***************************************************************************)
(* core/constants.py, core/registry.py, core/config.py                     *)
(***************************************************************************)
\* UpdateTier, in the order `for tier in UpdateTier` iterates
UpdateTier == <<"fast", "medium", "slow">>

TierSet == {UpdateTier[i] : i \in DOMAIN UpdateTier}

\* _collector_registry after the collectors package has been imported
\* (broadband before telephony, classes in definition order)
collector_registry ==
    [fast   |-> <<"BroadbandQuotaCollector">>,
     medium |-> <<"BroadbandInfoCollector", "TelephonyInfoCollector">>,
     slow   |-> <<"BroadbandUsageCollector", "TelephonyRateCardCollector">>]

get_collectors(tier) == collector_registry[tier]

\* cls._update_tier, set by the register_collector decorator
update_tier(cls) == CHOOSE tier \in TierSet : \E i \in DOMAIN collector_registry[tier] :
                                                   collector_registry[tier][i] = cls

Range(s) == {s[i] : i \in DOMAIN s}

CollectorClasses == UNION {Range(get_collectors(t)) : t \in TierSet}

DEFAULT_INTERVALS == [fast |-> 60, medium |-> 300, slow |-> 900]

\* the UpdateIntervals the model runs with
IntervalChoices == {DEFAULT_INTERVALS}

\* UpdateIntervals.get_interval
get_interval(iv, tier) ==
    CASE tier = "fast"   -> iv.fast
      [] tier = "medium" -> iv.medium
      [] tier = "slow"   -> iv.slow

\* exception classes of client.request, which reach collect()
ErrorTypes == {"CHAOSAPIError", "CHAOSAuthError"}

(***************************************************************************)
(* collectors/base.py                                                      *)
(***************************************************************************)
\* MetricCollector._get_subsystem_name: the class name without "Collector",
\* lower-cased
get_subsystem_name(name) ==
    CASE name = "BroadbandQuotaCollector"    -> "broadbandquota"
      [] name = "BroadbandInfoCollector"     -> "broadbandinfo"
      [] name = "BroadbandUsageCollector"    -> "broadbandusage"
      [] name = "TelephonyInfoCollector"     -> "telephonyinfo"
      [] name = "TelephonyRateCardCollector" -> "telephonyratecard"

VARIABLES
    collectors,   \* CollectorManager.collectors: tier -> list of collector names
    settings,     \* settings.intervals
    running,      \* CollectorManager._running
    tasks,        \* CollectorManager._tasks: list of task ids
    loops,        \* the asyncio tasks running _collection_loop, by task id
    startCall,    \* the start() call in flight: "idle" or "gather"
    initPass,     \* the collect() calls of start()'s initial pass, by collector
    stopCall,     \* the stop() call in flight: the set of tasks it awaits, or "idle"
    metrics,      \* the three shared instruments of MetricCollector
    clock,        \* time.time()
    nstarts,      \* number of times the manager has been taken to running
    lastCall,     \* the call of the manager's interface that returned in the
                  \* last step, with what it returned
    enabled,      \* settings.collectors.enable_broadband / enable_telephony
    run,          \* one collector's collect() call in flight: where it is in
                  \* _collect_impl and what it has done so far
    gauges,       \* the samples of the collectors' own instruments in the
                  \* registry, by (instrument name, label values)
    api_settings, \* CHAOSClient.api_settings: concurrency_limit, max_retries
    semaphore,    \* CHAOSClient._semaphore: its value and its queue of waiters
    calls,        \* the request() call of every task: where it is, its
                  \* retry_count and how it ended
    api_requests_total, \* the counter aaisp_api_requests_total by status_code
    nrequests,    \* number of request() calls made from outside
    config,       \* the settings objects under construction: what the
                  \* constructor was given and what it built
    app,          \* ExporterApp: client, collector_manager and where its
                  \* lifespan is
    registries,   \* the CollectorRegistry objects: the instrument registered
                  \* under every series name
    shared,       \* the class attributes of MetricCollector holding the three
                  \* shared instruments
    instances     \* the collector constructions so far, in order

\* the state of one collector and of its instruments
collectorVars == <<enabled, run, gauges>>

\* the variables the tier scheduler does not touch
\* the state of the API client
clientVars == <<api_settings, semaphore, calls, api_requests_total, nrequests>>

\* the settings, the application and the metric registries
appVars == <<config, app, registries, shared, instances>>

outsideScheduler == <<collectorVars, clientVars, appVars>>

vars == <<collectors, settings, running, tasks, loops, startCall, initPass,
          stopCall, metrics, clock, nstarts, lastCall, enabled, run, gauges,
          api_settings, semaphore, calls, api_requests_total, nrequests,
          config, app, registries, shared, instances>>

\* every collector instance of the manager
Instances == UNION {Range(collectors[t]) : t \in TierSet}

TaskIds == 1 .. (2 * Len(UpdateTier))

\* a slot of `loops` that holds no task
NoTask == [tier |-> "none", pc |-> "none", cancel |-> FALSE, passes |-> 0,
           inv |-> <<>>, tier_result |-> "none"]

\* results of one collect() call as asyncio.gather sees it
Finished(r) == r = "ok" \/ r \in ErrorTypes

\* the n smallest task ids no task occupies, in ascending order
FreeIds == {i \in TaskIds : loops[i].pc = "none"}

NewIds(n) ==
    [k \in 1 .. n |->
        CHOOSE i \in FreeIds : Cardinality({j \in FreeIds : j < i}) = k - 1]

(***************************************************************************)
(* collectors/base.py: MetricCollector.collect                             *)
(***************************************************************************)
\* label sets of the shared instruments
DurationLabels(c) == <<c, get_subsystem_name(c)>>

ErrorLabels(c, e) == <<c, get_subsystem_name(c), e>>

\* collect() with an error path that also stamps the last-success gauge
collect_stamping_errors(c, impl, m, now) ==
    IF impl = "ok"
    THEN [metrics |-> [m EXCEPT !.duration[DurationLabels(c)] = @ + 1,
                                !.last_success[c] = now],
          result  |-> "ok"]
    ELSE [metrics |-> [m EXCEPT !.errors[ErrorLabels(c, impl)] = @ + 1,
                                !.last_success[c] = now],
          result  |-> impl]

\* collect() that observes the duration of a success and forgets the
\* last-success gauge
collect_observing_only(c, impl, m, now) ==
    IF impl = "ok"
    THEN [metrics |-> [m EXCEPT !.duration[DurationLabels(c)] = @ + 1],
          result  |-> "ok"]
    ELSE [metrics |-> [m EXCEPT !.errors[ErrorLabels(c, impl)] = @ + 1],
          result  |-> impl]

\* collect() around a _collect_impl that ends with impl ("ok" when it returns,
\* the exception's class name when it raises), at time now: the instruments
\* afterwards and what the caller gets ("ok", or the exception re-raised)
collect(c, impl, m, now) ==
    IF impl = "ok"
    THEN [metrics |-> [m EXCEPT !.duration[DurationLabels(c)] = @ + 1,
                                !.last_success[c] = now],
          result  |-> "ok"]
    ELSE [metrics |-> [m EXCEPT !.errors[ErrorLabels(c, impl)] = @ + 1],
          result  |-> impl]

(***************************************************************************)
(* collectors/manager.py                                                   *)
(***************************************************************************)
\* CollectorManager._initialize_collectors, ok being the classes whose
\* constructor does not raise
\* a manager that files the fast tier's classes under medium and the
\* medium tier's under fast
initialize_collectors_swapped(ok) ==
    [tier \in TierSet |->
        SelectSeq(get_collectors(CASE tier = "fast" -> "medium"
                                   [] tier = "medium" -> "fast"
                                   [] OTHER -> tier),
                  LAMBDA cls : cls \in ok)]

initialize_collectors(ok) ==
    [tier \in TierSet |->
        SelectSeq(get_collectors(tier), LAMBDA cls : cls \in ok)]

\* asyncio.gather(*aws) without return_exceptions: over, and raising, with the
\* first exception
gather_first_exception(inv) ==
    [done   |-> \/ \A c \in DOMAIN inv : Finished(inv[c])
                \/ \E c \in DOMAIN inv : inv[c] \in ErrorTypes,
     raised |-> \E c \in DOMAIN inv : inv[c] \in ErrorTypes]

\* asyncio.gather(*aws, return_exceptions=True) over collect() calls with
\* results inv: done once every call has finished, and never raising
gather(inv) ==
    [done   |-> \A c \in DOMAIN inv : Finished(inv[c]),
     raised |-> FALSE]

\* start() creating a polling loop for every tier, with collectors or not
LoopTiersAll(colls) == UpdateTier

\* the tiers start() creates a polling loop for
LoopTiers(colls) == SelectSeq(UpdateTier, LAMBDA tier : colls[tier] # <<>>)

\* asyncio.create_task(self._collection_loop(tier))
create_task(tier) ==
    [tier |-> tier, pc |-> "created", cancel |-> FALSE, passes |-> 0,
     inv |-> [c \in Range(collectors[tier]) |-> "idle"],
     tier_result |-> "none"]

\* one evaluation of `while self._running:` and the call of collect_tier that
\* follows, up to its first suspension
LoopIteration(l) ==
    IF ~running
    THEN [l EXCEPT !.pc = "done"]
    ELSE IF collectors[l.tier] = <<>>
         THEN [l EXCEPT !.pc = "sleeping", !.passes = @ + 1,
                        !.tier_result = "returned"]
         ELSE [l EXCEPT !.pc = "collecting", !.passes = @ + 1,
                        !.inv = [c \in DOMAIN l.inv |-> "running"],
                        !.tier_result = "none"]

\* a loop that gives up after a pass in which a collector has raised
AfterCollectTierGivingUp(l, g) ==
    IF \E c \in DOMAIN l.inv : l.inv[c] \in ErrorTypes
    THEN [l EXCEPT !.pc = "done"]
    ELSE [l EXCEPT !.pc = "sleeping",
                   !.inv = [c \in DOMAIN l.inv |-> "idle"],
                   !.tier_result = IF g.raised THEN "raised" ELSE "returned"]

\* where the loop goes when collect_tier has ended: `except Exception` logs
\* what it raised, and the loop sleeps
AfterCollectTier(l, g) ==
    [l EXCEPT !.pc = "sleeping",
              !.inv = [c \in DOMAIN l.inv |-> "idle"],
              !.tier_result = IF g.raised THEN "raised" ELSE "returned"]

\* stop() that does not await the tasks it has cancelled
TasksNotAwaited(ts, lp) == TRUE

\* await asyncio.gather(*self._tasks, return_exceptions=True) in stop()
TasksDone(ts, lp) == \A t \in ts : lp[t].pc = "done"

\* start() that does not await the initial pass
InitialPassNotAwaited(ip) == TRUE

\* await asyncio.gather(*[self.collect_tier(tier) for tier in UpdateTier],
\* return_exceptions=True) in start(), ip being the collect() calls of the
\* initial pass: over once collect_tier has ended for every tier
InitialPassDone(ip) ==
    \A tier \in TierSet : gather([c \in Range(collectors[tier]) |-> ip[c]]).done

\* a task that is over and that no list refers to is gone
Collected(lp, ts) ==
    [i \in TaskIds |->
        IF lp[i].pc = "done" /\ i \notin Range(ts) THEN NoTask ELSE lp[i]]

\* the task has been created and is not over
Alive(l) == l.pc \in {"created", "collecting", "sleeping"}

\* no start() or stop() call is in flight
NoCall == startCall = "idle" /\ stopCall.pc = "idle"

\* sum of a function of numbers
RECURSIVE Sum(_)
Sum(f) ==
    IF DOMAIN f = {}
    THEN 0
    ELSE LET x == CHOOSE y \in DOMAIN f : TRUE
         IN  f[x] + Sum([y \in DOMAIN f \ {x} |-> f[y]])

\* the collect() calls that have run to their end: each one has counted once,
\* in the duration histogram or in the error counter
Collects == Sum(metrics.duration) + Sum(metrics.errors)

\* a step of a task, in which no call of the interface returns
NoReturn == [op |-> "none", ret |-> <<>>]

Returned(op) == [op |-> op, ret |-> <<>>]

(***************************************************************************)
(* The responses of the CHAOS API as the collectors see them, and the      *)
(* samples of the prometheus registry                                      *)
(***************************************************************************)
\* JSON values, tagged by their python type: a number; a string float()
\* parses, v being the number; any other string; null; an object
Num(n) == [t |-> "number", v |-> n]

NumStr(n) == [t |-> "numstr", v |-> n]

Txt(s) == [t |-> "str", v |-> s]

Null == [t |-> "null", v |-> 0]

Dict(d) == [t |-> "dict", v |-> d]

EmptyDict == [k \in {} |-> Null]

\* dict.get(key, default)
Get(d, key, default) == IF key \in DOMAIN d THEN d[key] ELSE default

\* isinstance(value, str)
IsStr(value) == value.t \in {"numstr", "str"}

\* str(value), as prometheus_client applies it to a label value
str(value) ==
    CASE value.t = "str"    -> value.v
      [] value.t = "numstr" -> ToString(value.v)
      [] value.t = "number" -> ToString(value.v)
      [] value.t = "null"   -> "None"
      [] value.t = "dict"   -> "{}"

\* str.lower(), on the strings of the responses
lower(s) ==
    CASE s = "UP"      -> "up"
      [] s = "In Sync" -> "in sync"
      [] s = "None"    -> "none"
      [] OTHER         -> s

\* settings.auth.control_login
control_login == "test@a"

\* a registry in which no instrument has a sample
NoSeries == [k \in {} |-> 0]

\* Gauge.labels(**labels).set(v): last value wins
set(g, name, labels, v) ==
    [k \in DOMAIN g \cup {<<name, labels>>} |->
        IF k = <<name, labels>> THEN v ELSE g[k]]

\* Counter.labels(**labels).inc(v)
inc(g, name, labels, v) ==
    set(g, name, labels,
        (IF <<name, labels>> \in DOMAIN g THEN g[<<name, labels>>] ELSE 0) + v)

\* what a call of the client gives: the dict it returns, or the exception it
\* raises
Ok(data) == [raised |-> FALSE, error |-> "none", msg |-> <<>>, data |-> data]

Raise(type, msg) == [raised |-> TRUE, error |-> type, msg |-> msg, data |-> <<>>]

\* what _collect_service_* gives: the registry afterwards, whether an
\* exception arose in it (failed) and whether it left it (raised)
Done(g) == [gauges |-> g, failed |-> FALSE, raised |-> FALSE]

Failed(g, raised) == [gauges |-> g, failed |-> TRUE, raised |-> raised]

(***************************************************************************)
(* collectors/broadband.py                                                 *)
(***************************************************************************)
\* _parse_bytes of BroadbandQuotaCollector and of BroadbandUsageCollector,
\* and _parse_speed of BroadbandInfoCollector: the three have the same body
parse_bytes(value) ==
    IF value.t = "number"
    THEN value.v
    ELSE IF IsStr(value)
         THEN IF value.t = "numstr" THEN value.v ELSE 0
         ELSE 0

\* BroadbandQuotaCollector._collect_service_quota, out being what
\* client.broadband_quota(service) gives
collect_service_quota(g, service, out) ==
    IF out.raised
    THEN Failed(g, TRUE)
    ELSE LET quota_data == out.data
             login      == str(Get(quota_data, "login", Txt(control_login)))
             total      == parse_bytes(Get(quota_data, "quota", Num(0)))
             used       == parse_bytes(Get(quota_data, "used", Num(0)))
             remaining  == parse_bytes(Get(quota_data, "remaining", Num(0)))
             percentage == IF total > 0 THEN (used * 100) \div total ELSE 0
             labels     == <<service, login>>
             g1 == set(g, "aaisp_broadband_quota_total_bytes", labels, total)
             g2 == set(g1, "aaisp_broadband_quota_used_bytes", labels, used)
             g3 == set(g2, "aaisp_broadband_quota_remaining_bytes", labels, remaining)
             g4 == set(g3, "aaisp_broadband_quota_percentage", labels, percentage)
         IN  Done(g4)

\* BroadbandUsageCollector._collect_service_usage: it logs the exception and
\* does not raise
collect_service_usage(g, service, out) ==
    IF out.raised
    THEN Failed(g, FALSE)
    ELSE LET usage_data     == out.data
             login          == str(Get(usage_data, "login", Txt(control_login)))
             download_bytes == parse_bytes(Get(usage_data, "download",
                                   Get(usage_data, "download_bytes", Num(0))))
             upload_bytes   == parse_bytes(Get(usage_data, "upload",
                                   Get(usage_data, "upload_bytes", Num(0))))
             labels         == <<service, login>>
             g1 == set(g, "aaisp_broadband_usage_download_bytes", labels, download_bytes)
             g2 == set(g1, "aaisp_broadband_usage_upload_bytes", labels, upload_bytes)
         IN  Done(g2)

\* _collect_service_info that reads the technology with info_data["technology"]
\* and raises KeyError when the answer lacks it
collect_service_info_requiring_fields(g, service, out) ==
    IF out.raised \/ "technology" \notin DOMAIN out.data
    THEN Failed(g, TRUE)
    ELSE Done(set(g, "aaisp_broadband_service_info",
                  <<service, str(Get(out.data, "login", Txt(control_login))),
                    str(out.data["technology"])>>, 1))

\* BroadbandInfoCollector._collect_service_info, out being what
\* client.broadband_info(service) gives; .lower() of a status that is no
\* string raises AttributeError
collect_service_info(g, service, out) ==
    IF out.raised
    THEN Failed(g, TRUE)
    ELSE LET info_data       == out.data
             login           == str(Get(info_data, "login", Txt(control_login)))
             line_type       == str(Get(info_data, "technology", Txt("unknown")))
             package         == str(Get(info_data, "package", Txt("unknown")))
             sync_down       == parse_bytes(Get(info_data, "sync_down", Num(0)))
             sync_up         == parse_bytes(Get(info_data, "sync_up", Num(0)))
             throughput_down == parse_bytes(Get(info_data, "throughput_down", Num(0)))
             throughput_up   == parse_bytes(Get(info_data, "throughput_up", Num(0)))
             status          == Get(info_data, "status", Txt("unknown"))
             line_status     == Get(info_data, "line_status",
                                    Get(info_data, "sync_status", Txt("unknown")))
             care_level      == str(Get(info_data, "care_level",
                                    Get(info_data, "care", Txt("unknown"))))
             router_type     == str(Get(info_data, "router_type",
                                    Get(info_data, "router", Txt("unknown"))))
             ipv4_address    == str(Get(info_data, "ipv4",
                                    Get(info_data, "ipv4_address", Txt("unknown"))))
             ipv6_prefix     == str(Get(info_data, "ipv6_prefix",
                                    Get(info_data, "ipv6", Txt("unknown"))))
         IN  IF ~IsStr(status) \/ ~IsStr(line_status)
             THEN Failed(g, TRUE)
             ELSE LET is_up      == IF lower(str(status)) \in {"up", "active", "connected"}
                                    THEN 1 ELSE 0
                      is_in_sync == IF lower(str(line_status)) \in
                                          {"up", "in sync", "synced", "connected"}
                                    THEN 1 ELSE 0
                      speed_labels == <<service, login, line_type>>
                      info_labels  == <<service, login, line_type, package, care_level,
                                        router_type, ipv4_address, ipv6_prefix>>
                      g1 == set(g, "aaisp_broadband_line_sync_download_bps", speed_labels, sync_down)
                      g2 == set(g1, "aaisp_broadband_line_sync_upload_bps", speed_labels, sync_up)
                      g3 == set(g2, "aaisp_broadband_throughput_download_bps", speed_labels, throughput_down)
                      g4 == set(g3, "aaisp_broadband_throughput_upload_bps", speed_labels, throughput_up)
                      g5 == set(g4, "aaisp_broadband_service_up", speed_labels, is_up)
                      g6 == set(g5, "aaisp_broadband_line_state", speed_labels, is_in_sync)
                      g7 == set(g6, "aaisp_broadband_service_info", info_labels, 1)
                  IN  Done(g7)

(***************************************************************************)
(* collectors/telephony.py                                                 *)
(***************************************************************************)
\* TelephonyInfoCollector._parse_int and _parse_float: Null stands for None
parse_int(value) ==
    IF value.t = "null"
    THEN Null
    ELSE IF value.t = "number"
         THEN Num(value.v)
         ELSE IF IsStr(value)
              THEN IF value.t = "numstr" THEN Num(value.v) ELSE Null
              ELSE Null

\* counters that take whatever was parsed
call_counters_unguarded(g, number, info_data, call_stats, direction, short) ==
    LET count == parse_int(Get(call_stats, direction \o "_calls",
                               Get(call_stats, "calls_" \o short, Null)))
    IN  inc(g, "aaisp_telephony_calls_total", <<number, direction>>, count.v)

\* the three counters of one direction of calls in _collect_service_info
call_counters(g, number, info_data, call_stats, direction, short) ==
    LET count    == parse_int(Get(call_stats, direction \o "_calls",
                                  Get(call_stats, "calls_" \o short, Null)))
        duration == parse_int(Get(call_stats, direction \o "_duration",
                                  Get(call_stats, "duration_" \o short, Null)))
        cost     == parse_int(Get(call_stats, direction \o "_cost",
                                  Get(call_stats, "cost_" \o short, Null)))
        currency == str(Get(info_data, "currency", Txt("GBP")))
        g1 == IF count # Null /\ count.v > 0
              THEN inc(g, "aaisp_telephony_calls_total", <<number, direction>>, count.v)
              ELSE g
        g2 == IF duration # Null /\ duration.v > 0
              THEN inc(g1, "aaisp_telephony_call_duration_seconds_total",
                       <<number, direction>>, duration.v)
              ELSE g1
        g3 == IF cost # Null /\ cost.v > 0
              THEN inc(g2, "aaisp_telephony_call_cost_total",
                       <<number, direction, currency>>, cost.v)
              ELSE g2
    IN  g3

\* TelephonyInfoCollector._collect_service_info, out being what
\* client.telephony_info(number) gives; .get of call statistics that are no
\* object raises AttributeError, after the info gauge has been set
collect_service_telephony(g, number, out) ==
    IF out.raised
    THEN Failed(g, TRUE)
    ELSE LET info_data       == out.data
             status          == str(Get(info_data, "status", Txt("unknown")))
             call_forwarding == lower(str(Get(info_data, "call_forwarding",
                                    Get(info_data, "forwarding", Txt("unknown")))))
             voicemail       == lower(str(Get(info_data, "voicemail",
                                    Get(info_data, "voicemail_enabled", Txt("unknown")))))
             service_type    == str(Get(info_data, "service_type",
                                    Get(info_data, "type", Txt("unknown"))))
             g1 == set(g, "aaisp_telephony_service_info",
                       <<number, status, call_forwarding, voicemail, service_type>>, 1)
             stats == Get(info_data, "call_stats",
                          Get(info_data, "statistics", Dict(EmptyDict)))
         IN  IF stats.t # "dict"
             THEN Failed(g1, TRUE)
             ELSE LET call_stats == stats.v
                      g2 == call_counters(g1, number, info_data, call_stats, "inbound", "in")
                      g3 == call_counters(g2, number, info_data, call_stats, "outbound", "out")
                      active == parse_int(Get(info_data, "active_calls",
                                    Get(info_data, "current_calls", Null)))
                      g4 == IF active # Null
                            THEN set(g3, "aaisp_telephony_active_calls", <<number>>, active.v)
                            ELSE g3
                  IN  Done(g4)

(***************************************************************************)
(* _collect_impl of the collectors that poll one entity after the other    *)
(***************************************************************************)
\* the first statement of _collect_impl: the class reads its category's
\* flag of settings.collectors; the rate card collector reads
\* enable_telephony_ratecard, which CollectorSettings does not have
read_flag(c, flag) ==
    CASE c = "TelephonyRateCardCollector" -> "AttributeError"
      [] flag  -> "enabled"
      [] OTHER -> "disabled"

PerEntityCollectors ==
    {"BroadbandQuotaCollector", "BroadbandInfoCollector",
     "BroadbandUsageCollector", "TelephonyInfoCollector"}

\* the method _collect_impl calls for every service
collect_service(c, g, service, out) ==
    CASE c = "BroadbandQuotaCollector" -> collect_service_quota(g, service, out)
      [] c = "BroadbandInfoCollector"  -> collect_service_info(g, service, out)
      [] c = "BroadbandUsageCollector" -> collect_service_usage(g, service, out)
      [] c = "TelephonyInfoCollector"  -> collect_service_telephony(g, service, out)

\* the instruments that method sets for a service whenever it does not fail
ServiceGauges(c) ==
    CASE c = "BroadbandQuotaCollector" ->
             {"aaisp_broadband_quota_total_bytes", "aaisp_broadband_quota_used_bytes",
              "aaisp_broadband_quota_remaining_bytes", "aaisp_broadband_quota_percentage"}
      [] c = "BroadbandInfoCollector"  ->
             {"aaisp_broadband_line_sync_download_bps", "aaisp_broadband_line_sync_upload_bps",
              "aaisp_broadband_throughput_download_bps", "aaisp_broadband_throughput_upload_bps",
              "aaisp_broadband_service_up", "aaisp_broadband_line_state",
              "aaisp_broadband_service_info"}
      [] c = "BroadbandUsageCollector" ->
             {"aaisp_broadband_usage_download_bytes", "aaisp_broadband_usage_upload_bytes"}
      [] c = "TelephonyInfoCollector"  -> {"aaisp_telephony_service_info"}

\* "500" in error_msg or "Internal Server Error" in error_msg, a message
\* being the sequence of its words
Has500(msg) == \E i \in DOMAIN msg : msg[i] \in {"500", "Internal Server Error"}

\* a collect() call that has not begun; besides where _collect_impl is, the
\* services it has called the detail method for (issued), those for which the
\* method failed (failed), whether the listing call returned (listed) and
\* what the last call of the client gave (answer)
NoRun ==
    [pc |-> "idle", collector |-> "none", services |-> <<>>, next |-> 1,
     issued |-> <<>>, failed |-> {}, listed |-> FALSE, answer |-> Ok(<<>>),
     impl |-> "none", result |-> "none", n |-> 0]

\* _collect_impl that logs the exception of the listing call and returns
after_listing_swallowing(c, r, out) ==
    IF out.raised
    THEN [r EXCEPT !.pc = "return", !.answer = out, !.impl = "ok"]
    ELSE IF out.data = <<>>
         THEN [r EXCEPT !.pc = "return", !.impl = "ok", !.listed = TRUE]
         ELSE [r EXCEPT !.pc = "detail", !.services = out.data, !.next = 1,
                        !.listed = TRUE]

\* _collect_impl from the end of the listing call, which gave out, up to the
\* next call of the client: the exception of the listing call is raised
\* again, but for the HTTP 500 TelephonyInfoCollector takes for an account
\* without telephony services; the loop over no service ends at once
after_listing(c, r, out) ==
    IF out.raised
    THEN [r EXCEPT !.pc = "return", !.answer = out,
                   !.impl = IF c = "TelephonyInfoCollector" /\ Has500(out.msg)
                            THEN "ok" ELSE out.error]
    ELSE IF out.data = <<>>
         THEN [r EXCEPT !.pc = "return", !.impl = "ok", !.listed = TRUE]
         ELSE [r EXCEPT !.pc = "detail", !.services = out.data, !.next = 1,
                        !.listed = TRUE]

\* a loop over the services that the first exception of a service ends
after_service_aborting(r, service, s) ==
    LET r1 == [r EXCEPT !.issued = Append(@, service),
                        !.failed = IF s.failed THEN @ \cup {service} ELSE @,
                        !.next = @ + 1]
    IN  IF s.raised
        THEN [r1 EXCEPT !.pc = "return", !.impl = "CHAOSAPIError"]
        ELSE IF r1.next > Len(r1.services)
             THEN [r1 EXCEPT !.pc = "return", !.impl = "ok"]
             ELSE r1

\* _collect_impl from the end of the method called for a service, which gave
\* s, up to the next call of the client: `except Exception` logs what the
\* method raised and the loop goes on
after_service(r, service, s) ==
    LET r1 == [r EXCEPT !.issued = Append(@, service),
                        !.failed = IF s.failed THEN @ \cup {service} ELSE @,
                        !.next = @ + 1]
    IN  IF r1.next > Len(r1.services)
        THEN [r1 EXCEPT !.pc = "return", !.impl = "ok"]
        ELSE r1

(***************************************************************************)
(* What the API is made to answer                                          *)
(***************************************************************************)
ServiceIds == <<"01234567890", "01234567891", "01234567892", "01234567893">>

Services == {ServiceIds[i] : i \in 1 .. MaxServices}

\* what a listing call returns: the first n services, each once, in any
\* order
ServiceLists ==
    {s \in UNION {[1 .. n -> Services] : n \in 0 .. MaxServices} :
        {s[i] : i \in DOMAIN s} = {ServiceIds[i] : i \in DOMAIN s}}

\* exceptions of client.request
RequestErrors ==
    {Raise("CHAOSAPIError", <<"HTTP", "500", "Internal Server Error">>),
     Raise("CHAOSAPIError", <<"Request", "failed">>),
     Raise("CHAOSAuthError", <<"Authentication", "failed">>)}

ListingOutcomes == {Ok(s) : s \in ServiceLists} \cup RequestErrors

\* the answers of a detail call: the one of the unit tests, one with other
\* fields, one with fields missing and a string that is no number
FullQuota ==
    "login" :> Txt("test@a") @@ "quota" :> NumStr(10) @@ "used" :> NumStr(5)
        @@ "remaining" :> NumStr(5)

QuotaResponses ==
    {FullQuota,
     ("quota" :> Num(10) @@ "remaining" :> Num(5)),
     ("used" :> Txt("invalid"))}

FullInfo ==
    "login" :> Txt("test@a") @@ "technology" :> Txt("FTTP")
        @@ "package" :> Txt("Home::1") @@ "sync_down" :> NumStr(10)
        @@ "sync_up" :> NumStr(5) @@ "throughput_down" :> NumStr(10)
        @@ "throughput_up" :> NumStr(5) @@ "status" :> Txt("up")
        @@ "line_status" :> Txt("in sync") @@ "care_level" :> Txt("standard")
        @@ "router_type" :> Txt("ZyXEL") @@ "ipv4" :> Txt("198.51.100.1")
        @@ "ipv6_prefix" :> Txt("2001:db8::/64")

InfoResponses ==
    {FullInfo,
     ("login" :> Txt("test@a") @@ "status" :> Txt("up")),
     ("sync_down" :> Txt("invalid") @@ "status" :> Txt("UP")
        @@ "sync_status" :> Txt("In Sync")),
     ("status" :> Null)}

FullUsage ==
    "login" :> Txt("test@a") @@ "download" :> NumStr(10) @@ "upload" :> NumStr(5)

UsageResponses ==
    {FullUsage,
     ("download_bytes" :> Num(10)),
     ("download" :> Txt("invalid"))}

FullTelephony ==
    "status" :> Txt("active") @@ "call_forwarding" :> Txt("None")
        @@ "voicemail" :> Txt("None") @@ "service_type" :> Txt("voip")
        @@ "call_stats" :> Dict("inbound_calls" :> NumStr(5) @@ "outbound_calls" :> Num(0)
                                 @@ "inbound_cost" :> Txt("invalid"))
        @@ "active_calls" :> Num(0)

\* call statistics that are positive, negative, zero and null, as numbers
\* and as strings, under both names of a field
MixedTelephony ==
    "call_stats" :> Dict("inbound_calls" :> Num(2) @@ "inbound_duration" :> NumStr(-2)
                         @@ "inbound_cost" :> Num(0) @@ "outbound_calls" :> Num(-1)
                         @@ "outbound_duration" :> Null @@ "duration_out" :> Num(2)
                         @@ "cost_out" :> NumStr(1))
        @@ "currency" :> Txt("EUR")

TelephonyResponses ==
    {FullTelephony,
     ("statistics" :> Dict("calls_in" :> Num(5)) @@ "current_calls" :> Null),
     ("statistics" :> Txt("none"))}

\* what a detail call of the telephony collector gives when its call
\* statistics are looked at
CallStatsOutcomes ==
    {Ok(FullTelephony), Ok(MixedTelephony),
     Raise("CHAOSAPIError", <<"Request", "failed">>)}

\* the answer with every field, of collector c
FullAnswer(c) ==
    CASE c = "BroadbandQuotaCollector" -> FullQuota
      [] c = "BroadbandInfoCollector"  -> FullInfo
      [] c = "BroadbandUsageCollector" -> FullUsage
      [] c = "TelephonyInfoCollector"  -> FullTelephony

\* what a detail call of collector c gives
DetailOutcomes(c) ==
    {Ok(d) : d \in CASE c = "BroadbandQuotaCollector" -> QuotaResponses
                     [] c = "BroadbandInfoCollector"  -> InfoResponses
                     [] c = "BroadbandUsageCollector" -> UsageResponses
                     [] c = "TelephonyInfoCollector"  -> TelephonyResponses
                     [] OTHER -> {}}
    \cup {Raise("CHAOSAPIError", <<"Request", "failed">>)}

(***************************************************************************)
(* api/client.py: CHAOSClient.request and the asyncio.Semaphore it holds.  *)
(* Every task that runs a collect() call, of whichever collector and tier, *)
(* calls request() of the one client the application builds.               *)
(***************************************************************************)
Callers == 1 .. MaxCallers

\* the CHAOSAPISettings the model runs with
ApiSettingsChoices == [concurrency_limit : {1, 2}, max_retries : {0, 1}]

\* asyncio.Semaphore(value): the permits left and the futures of the tasks
\* waiting in acquire(), oldest first
Semaphore(value) == [value |-> value, waiters |-> <<>>]

\* Semaphore.locked
locked(sem) ==
    \/ sem.value = 0
    \/ \E i \in DOMAIN sem.waiters : sem.waiters[i].st # "cancelled"

\* Semaphore._wake_up_next: the oldest waiter whose future is pending gets
\* the permit
wake_up_next(sem) ==
    IF \E i \in DOMAIN sem.waiters : sem.waiters[i].st = "pending"
    THEN LET i == CHOOSE j \in DOMAIN sem.waiters :
                     /\ sem.waiters[j].st = "pending"
                     /\ \A h \in 1 .. j - 1 : sem.waiters[h].st # "pending"
         IN  [value   |-> sem.value - 1,
              waiters |-> [sem.waiters EXCEPT ![i].st = "result"]]
    ELSE sem

\* Semaphore.release, the exit of `async with self._semaphore`
release(sem) == wake_up_next([sem EXCEPT !.value = @ + 1])

\* the future of task k in the queue of the semaphore
WaiterOf(sem, k) ==
    sem.waiters[CHOOSE i \in DOMAIN sem.waiters : sem.waiters[i].task = k]

RemoveWaiter(sem, k) ==
    [sem EXCEPT !.waiters = SelectSeq(@, LAMBDA w : w.task # k)]

\* an acquire() that takes a permit whether or not one is left
acquire_without_waiting(sem, k) ==
    [sem |-> [sem EXCEPT !.value = IF @ > 0 THEN @ - 1 ELSE 0], pc |-> "post"]

\* Semaphore.acquire up to its await: the permit is taken at once, or the
\* task queues a future and waits for it
acquire(sem, k) ==
    IF ~locked(sem)
    THEN [sem |-> [sem EXCEPT !.value = @ - 1], pc |-> "post"]
    ELSE [sem |-> [sem EXCEPT !.waiters = Append(@, [task |-> k, st |-> "pending"])],
          pc  |-> "waiting"]

\* Semaphore.acquire after its await, the future holding a result
acquired(sem, k) ==
    LET s == RemoveWaiter(sem, k)
    IN  IF s.value > 0 THEN wake_up_next(s) ELSE s

\* Semaphore.acquire after its await, a CancelledError being thrown into it
acquire_cancelled(sem, k) ==
    LET s == RemoveWaiter(sem, k)
    IN  IF WaiterOf(sem, k).st # "cancelled"
        THEN wake_up_next([s EXCEPT !.value = @ + 1])
        ELSE s

\* no request() call of a task
NoCallOf == [pc |-> "idle", retry_count |-> 0, attempts |-> 0,
             result |-> "none", cancel |-> FALSE]

StatusCodes == {200, 401, 429, 500}

\* what a post can end with: a response (its status and whether its body is
\* JSON, and JSON with an "error" key), a timeout, another transport error
PostOutcomes ==
    [kind : {"response"}, status_code : StatusCodes,
     body : {"data", "error", "not_json"}]
    \cup [kind : {"timeout", "request_error"}, status_code : {0}, body : {"none"}]

\* CHAOSClient._record_request_metrics
record_request_metrics(total, status_code) ==
    [total EXCEPT ![status_code] = @ + 1]

\* a request() that sleeps and calls itself after every timeout
after_post_always_retrying(call, total, out, max_retries) ==
    IF out.kind = "timeout"
    THEN [total |-> record_request_metrics(total, 0),
          call  |-> [call EXCEPT !.pc = "backoff"]]
    ELSE [total |-> total, call |-> [call EXCEPT !.pc = "idle", !.result = "data"]]

\* request() from the end of its post to its return, its raise or its
\* backoff sleep
after_post(call, total, out, max_retries) ==
    LET raise(e)  == [call EXCEPT !.pc = "idle", !.result = e]
        counted(s) == record_request_metrics(total, s)
    IN  CASE out.kind = "timeout" ->
               [total |-> counted(0),
                call  |-> IF call.retry_count < max_retries
                          THEN [call EXCEPT !.pc = "backoff"]
                          ELSE raise("CHAOSAPIError")]
          [] out.kind = "request_error" ->
               [total |-> counted(0), call |-> raise("CHAOSAPIError")]
          [] out.kind = "response" /\ out.status_code = 401 ->
               [total |-> total, call |-> raise("CHAOSAuthError")]
          [] out.kind = "response" /\ out.status_code = 429 ->
               [total |-> total, call |-> raise("CHAOSRateLimitError")]
          [] out.kind = "response" /\ out.status_code \notin {200, 401, 429} ->
               [total |-> counted(out.status_code), call |-> raise("CHAOSAPIError")]
          [] out.kind = "response" /\ out.status_code = 200 /\ out.body = "not_json" ->
               [total |-> total, call |-> raise("JSONDecodeError")]
          [] out.kind = "response" /\ out.status_code = 200 /\ out.body = "error" ->
               [total |-> total, call |-> raise("CHAOSAPIError")]
          [] out.kind = "response" /\ out.status_code = 200 /\ out.body = "data" ->
               [total |-> counted(200),
                call  |-> [call EXCEPT !.pc = "idle", !.result = "data"]]

\* the client before any request
ClientIdle ==
    /\ api_settings = [concurrency_limit |-> 1, max_retries |-> 0]
    /\ semaphore = Semaphore(api_settings.concurrency_limit)
    /\ calls = [k \in Callers |-> NoCallOf]
    /\ api_requests_total = [s \in StatusCodes \cup {0} |-> 0]
    /\ nrequests = 0

(***************************************************************************)
(* core/config.py: the settings objects pydantic builds and validates      *)
(***************************************************************************)
\* a keyword argument (or environment variable) that is not given
Unset == [t |-> "unset", v |-> 0]

\* Field(ge=..., le=...) of the three fields of UpdateIntervals
IntervalBounds ==
    [fast   |-> [ge |-> 10,  le |-> 3600],
     medium |-> [ge |-> 60,  le |-> 3600],
     slow   |-> [ge |-> 300, le |-> 7200]]

\* an int field that takes whatever number it is given
int_field_unchecked(value, default, ge, le) ==
    CASE value.t = "unset"                -> [ok |-> TRUE, v |-> default]
      [] value.t \in {"number", "numstr"} -> [ok |-> TRUE, v |-> value.v]
      [] OTHER                            -> [ok |-> FALSE, v |-> 0]

\* pydantic's validation of an int field declared with Field(default, ge, le):
\* the default when nothing is given, the integer given (as a number or as
\* a string of digits) when it lies within the bounds, a ValidationError
\* otherwise
int_field(value, default, ge, le) ==
    CASE value.t = "unset"                -> [ok |-> TRUE, v |-> default]
      [] value.t \in {"number", "numstr"} ->
            [ok |-> value.v >= ge /\ value.v <= le, v |-> value.v]
      [] OTHER                            -> [ok |-> FALSE, v |-> 0]

\* UpdateIntervals(**kw): ok is FALSE when the constructor raises
\* ValidationError
UpdateIntervals(kw) ==
    LET f(tier) == int_field(kw[tier], DEFAULT_INTERVALS[tier],
                             IntervalBounds[tier].ge, IntervalBounds[tier].le)
    IN  IF \A tier \in TierSet : f(tier).ok
        THEN [ok |-> TRUE, fast |-> f("fast").v, medium |-> f("medium").v,
              slow |-> f("slow").v]
        ELSE [ok |-> FALSE, fast |-> 0, medium |-> 0, slow |-> 0]

\* what the constructor is given for a tier: nothing, the bounds, their
\* neighbours outside, a string of digits, a string that is no number
IntervalInputs(tier) ==
    {Unset, Txt("invalid"), NumStr(IntervalBounds[tier].ge + 20),
     Num(IntervalBounds[tier].ge - 1), Num(IntervalBounds[tier].ge),
     Num(IntervalBounds[tier].le), Num(IntervalBounds[tier].le + 1)}

IntervalKwargs ==
    [fast : IntervalInputs("fast"), medium : IntervalInputs("medium"),
     slow : IntervalInputs("slow")]

\* AuthSettings(): no credentials
NoAuth == [control_login |-> "", control_password |-> "",
           account_number |-> "", account_password |-> ""]

\* Settings() before anything is configured
NoConfig ==
    [built     |-> FALSE,
     kwargs    |-> [tier \in TierSet |-> Unset],
     intervals |-> UpdateIntervals([tier \in TierSet |-> Unset]),
     auth      |-> NoAuth]

\* no application, no registry, no collector constructed
AppIdle ==
    /\ config = NoConfig
    /\ app = [pc |-> "none"]
    /\ registries = <<>>
    /\ shared = <<>>
    /\ instances = <<>>

(***************************************************************************)
(* The tier scheduler: CollectorManager of collectors/manager.py           *)
(***************************************************************************)
Init ==
    /\ \E ok \in SUBSET CollectorClasses :
          /\ Cardinality(ok) <= MaxCollectors
          /\ collectors = initialize_collectors(ok)
    /\ settings \in IntervalChoices
    /\ running = FALSE
    /\ tasks = <<>>
    /\ loops = [i \in TaskIds |-> NoTask]
    /\ startCall = "idle"
    /\ initPass = [c \in Instances |-> "idle"]
    /\ stopCall = [pc |-> "idle", await |-> {}]
    /\ metrics = [duration     |-> [l \in {DurationLabels(c) : c \in Instances} |-> 0],
                  errors       |-> [l \in {ErrorLabels(c, e) : c \in Instances, e \in ErrorTypes} |-> 0],
                  last_success |-> [c \in Instances |-> 0]]
    /\ clock = 1
    /\ nstarts = 0
    /\ lastCall = NoReturn
    /\ enabled = TRUE
    /\ run = NoRun
    /\ gauges = NoSeries
    /\ ClientIdle
    /\ AppIdle

\* start() on a running manager
StartAlreadyRunning ==
    /\ NoCall
    /\ running
    /\ lastCall' = Returned("start_already_running")
    /\ UNCHANGED <<collectors, settings, running, tasks, loops, startCall,
                   initPass, stopCall, metrics, clock, nstarts>>
    /\ UNCHANGED outsideScheduler

\* start() up to its await of the initial pass
Start ==
    /\ NoCall
    /\ ~running
    /\ nstarts < MaxStarts
    /\ running' = TRUE
    /\ LET tiers == LoopTiers(collectors)
           ids   == NewIds(Len(tiers))
       IN  /\ loops' = [i \in TaskIds |->
                          IF \E k \in 1 .. Len(tiers) : ids[k] = i
                          THEN create_task(tiers[CHOOSE k \in 1 .. Len(tiers) : ids[k] = i])
                          ELSE loops[i]]
           /\ tasks' = tasks \o ids
    /\ initPass' = [c \in Instances |-> "running"]
    /\ startCall' = "gather"
    /\ nstarts' = nstarts + 1
    /\ lastCall' = NoReturn
    /\ UNCHANGED <<collectors, settings, stopCall, metrics, clock>>
    /\ UNCHANGED outsideScheduler

\* the initial pass is over and start() returns
StartReturn ==
    /\ startCall = "gather"
    /\ InitialPassDone(initPass)
    /\ startCall' = "idle"
    /\ initPass' = [c \in Instances |-> "idle"]
    /\ lastCall' = Returned("start")
    /\ UNCHANGED <<collectors, settings, running, tasks, loops, stopCall,
                   metrics, clock, nstarts>>
    /\ UNCHANGED outsideScheduler

\* a collect() call of the initial pass ends; the loop tasks, created before
\* the tasks of the initial pass, have run their first step by then
InitCollectDone(c, impl) ==
    /\ startCall = "gather"
    /\ \A t \in TaskIds : loops[t].pc # "created"
    /\ initPass[c] = "running"
    /\ Collects < MaxCollects
    /\ LET out == collect(c, impl, metrics, clock)
       IN  /\ metrics' = out.metrics
           /\ initPass' = [initPass EXCEPT ![c] = out.result]
    /\ lastCall' = NoReturn
    /\ UNCHANGED <<collectors, settings, running, tasks, loops, startCall,
                   stopCall, clock, nstarts>>
    /\ UNCHANGED outsideScheduler

\* a loop task runs for the first time
LoopStart(t) ==
    /\ loops[t].pc = "created"
    /\ ~loops[t].cancel
    /\ loops' = [loops EXCEPT ![t] = LoopIteration(loops[t])]
    /\ lastCall' = NoReturn
    /\ UNCHANGED <<collectors, settings, running, tasks, startCall, initPass,
                   stopCall, metrics, clock, nstarts>>
    /\ UNCHANGED outsideScheduler

\* asyncio.sleep(interval) of a loop ends
SleepDone(t) ==
    /\ loops[t].pc = "sleeping"
    /\ ~loops[t].cancel
    /\ clock < MaxClock
    /\ clock' = clock + 1
    /\ loops' = [loops EXCEPT ![t] = LoopIteration(loops[t])]
    /\ lastCall' = NoReturn
    /\ UNCHANGED <<collectors, settings, running, tasks, startCall, initPass,
                   stopCall, metrics, nstarts>>
    /\ UNCHANGED outsideScheduler

\* a collect() call of a loop's pass ends
LoopCollectDone(t, c, impl) ==
    /\ loops[t].pc = "collecting"
    /\ ~loops[t].cancel
    /\ c \in DOMAIN loops[t].inv
    /\ loops[t].inv[c] = "running"
    /\ Collects < MaxCollects
    /\ LET out == collect(c, impl, metrics, clock)
       IN  /\ metrics' = out.metrics
           /\ loops' = [loops EXCEPT ![t].inv[c] = out.result]
    /\ lastCall' = NoReturn
    /\ UNCHANGED <<collectors, settings, running, tasks, startCall, initPass,
                   stopCall, clock, nstarts>>
    /\ UNCHANGED outsideScheduler

\* a pass that ends only when no other loop is in a pass
PassDoneOneAtATime(t) ==
    /\ loops[t].pc = "collecting"
    /\ ~loops[t].cancel
    /\ gather(loops[t].inv).done
    /\ \A u \in TaskIds \ {t} : loops[u].pc # "collecting"
    /\ loops' = [loops EXCEPT ![t] = AfterCollectTier(loops[t], gather(loops[t].inv))]
    /\ lastCall' = NoReturn
    /\ UNCHANGED <<collectors, settings, running, tasks, startCall, initPass,
                   stopCall, metrics, clock, nstarts>>
    /\ UNCHANGED outsideScheduler

\* collect_tier of a loop ends and the loop goes to sleep
PassDone(t) ==
    /\ loops[t].pc = "collecting"
    /\ ~loops[t].cancel
    /\ gather(loops[t].inv).done
    /\ loops' = [loops EXCEPT ![t] = AfterCollectTier(loops[t], gather(loops[t].inv))]
    /\ lastCall' = NoReturn
    /\ UNCHANGED <<collectors, settings, running, tasks, startCall, initPass,
                   stopCall, metrics, clock, nstarts>>
    /\ UNCHANGED outsideScheduler

\* a collect() that catches the CancelledError like any exception: every
\* call the cancellation ends counts an error of type CancelledError
LoopCancelledCountingErrors(t) ==
    /\ Alive(loops[t])
    /\ loops[t].cancel
    /\ loops' = [loops EXCEPT ![t].pc = "done",
                              ![t].inv = [c \in DOMAIN @ |-> "idle"]]
    /\ LET ended == {c \in DOMAIN loops[t].inv : loops[t].inv[c] = "running"}
           keys  == {ErrorLabels(c, "CancelledError") : c \in ended}
       IN  metrics' = [metrics EXCEPT !.errors =
                          [l \in DOMAIN @ \cup keys |->
                              (IF l \in DOMAIN @ THEN @[l] ELSE 0)
                                 + (IF l \in keys THEN 1 ELSE 0)]]
    /\ lastCall' = NoReturn
    /\ UNCHANGED <<collectors, settings, running, tasks, startCall, initPass,
                   stopCall, clock, nstarts>>
    /\ UNCHANGED outsideScheduler

\* a cancellation that only reaches a loop that has not started or that is
\* asleep: a collection pass in progress is not interrupted
LoopCancelledWhenSleeping(t) ==
    /\ loops[t].pc \in {"created", "sleeping"}
    /\ loops[t].cancel
    /\ loops' = [loops EXCEPT ![t].pc = "done"]
    /\ lastCall' = NoReturn
    /\ UNCHANGED <<collectors, settings, running, tasks, startCall, initPass,
                   stopCall, metrics, clock, nstarts>>
    /\ UNCHANGED outsideScheduler

\* the CancelledError of task.cancel() reaches a loop task and, through
\* gather, its running collect() calls: none of them catches it
LoopCancelled(t) ==
    /\ Alive(loops[t])
    /\ loops[t].cancel
    /\ loops' = [loops EXCEPT ![t].pc = "done",
                              ![t].inv = [c \in DOMAIN @ |-> "idle"]]
    /\ lastCall' = NoReturn
    /\ UNCHANGED <<collectors, settings, running, tasks, startCall, initPass,
                   stopCall, metrics, clock, nstarts>>
    /\ UNCHANGED outsideScheduler

\* stop() on a manager that is not running
StopNotRunning ==
    /\ NoCall
    /\ ~running
    /\ lastCall' = Returned("stop_not_running")
    /\ UNCHANGED <<collectors, settings, running, tasks, loops, startCall,
                   initPass, stopCall, metrics, clock, nstarts>>
    /\ UNCHANGED outsideScheduler

\* stop() that clears the flag and awaits the tasks without cancelling them
StopWithoutCancel ==
    /\ NoCall
    /\ running
    /\ running' = FALSE
    /\ IF tasks = <<>>
       THEN /\ stopCall' = stopCall
            /\ lastCall' = Returned("stop")
       ELSE /\ stopCall' = [pc |-> "gather", await |-> Range(tasks)]
            /\ lastCall' = NoReturn
    /\ UNCHANGED <<collectors, settings, tasks, loops, startCall, initPass,
                   metrics, clock, nstarts>>
    /\ UNCHANGED outsideScheduler

\* stop() up to its await of the loop tasks (gather of no task does not
\* suspend)
Stop ==
    /\ NoCall
    /\ running
    /\ running' = FALSE
    /\ loops' = [i \in TaskIds |->
                    IF i \in Range(tasks) /\ loops[i].pc # "done"
                    THEN [loops[i] EXCEPT !.cancel = TRUE]
                    ELSE loops[i]]
    /\ IF tasks = <<>>
       THEN /\ stopCall' = stopCall
            /\ lastCall' = Returned("stop")
       ELSE /\ stopCall' = [pc |-> "gather", await |-> Range(tasks)]
            /\ lastCall' = NoReturn
    /\ UNCHANGED <<collectors, settings, tasks, startCall, initPass, metrics,
                   clock, nstarts>>
    /\ UNCHANGED outsideScheduler

\* stop() that returns without clearing the task list
StopReturnWithoutClear ==
    /\ stopCall.pc = "gather"
    /\ TasksDone(stopCall.await, loops)
    /\ stopCall' = [pc |-> "idle", await |-> {}]
    /\ lastCall' = Returned("stop")
    /\ UNCHANGED <<collectors, settings, running, tasks, loops, startCall,
                   initPass, metrics, clock, nstarts>>
    /\ UNCHANGED outsideScheduler

\* the loop tasks are over, stop() clears the list and returns; tasks that
\* are over and that nothing refers to any more are dropped
StopReturn ==
    /\ stopCall.pc = "gather"
    /\ TasksDone(stopCall.await, loops)
    /\ tasks' = <<>>
    /\ loops' = Collected(loops, tasks')
    /\ stopCall' = [pc |-> "idle", await |-> {}]
    /\ lastCall' = Returned("stop")
    /\ UNCHANGED <<collectors, settings, running, startCall, initPass, metrics,
                   clock, nstarts>>
    /\ UNCHANGED outsideScheduler

\* CollectorManager.get_status
get_status ==
    [running    |-> running,
     collectors |-> [tier \in TierSet |-> collectors[tier]],
     intervals  |-> [tier \in TierSet |-> get_interval(settings, tier)]]

\* get_status() that drops the tasks that are over from the task list
GetStatusPruning ==
    /\ lastCall' = [op |-> "get_status", ret |-> <<get_status>>]
    /\ tasks' = SelectSeq(tasks, LAMBDA t : loops[t].pc # "done")
    /\ UNCHANGED <<collectors, settings, running, loops, startCall, initPass,
                   stopCall, metrics, clock, nstarts>>
    /\ UNCHANGED outsideScheduler

\* a call of get_status(), from the health endpoint or the landing page
GetStatus ==
    /\ lastCall' = [op |-> "get_status", ret |-> <<get_status>>]
    /\ UNCHANGED <<collectors, settings, running, tasks, loops, startCall,
                   initPass, stopCall, metrics, clock, nstarts>>
    /\ UNCHANGED outsideScheduler

Next ==
    \/ StartAlreadyRunning
    \/ Start
    \/ StartReturn
    \/ \E c \in Instances, impl \in {"ok"} \cup ErrorTypes : InitCollectDone(c, impl)
    \/ \E t \in TaskIds : LoopStart(t)
    \/ \E t \in TaskIds : SleepDone(t)
    \/ \E t \in TaskIds, c \in Instances, impl \in {"ok"} \cup ErrorTypes :
          LoopCollectDone(t, c, impl)
    \/ \E t \in TaskIds : PassDone(t)
    \/ \E t \in TaskIds : LoopCancelled(t)
    \/ StopNotRunning
    \/ Stop
    \/ StopReturn
    \/ GetStatus

Spec == Init /\ [][Next]_vars

\* the event loop runs every callback that is ready: the CancelledError of a
\* cancelled task is thrown into it, and a stop() whose tasks are over resumes
FairSpec ==
    /\ Spec
    /\ WF_vars(\E t \in TaskIds : LoopCancelled(t))
    /\ WF_vars(StopReturn)

(***************************************************************************)
(* start() and stop() called from different tasks: a call made while the   *)
(* other one is suspended in its gather                                    *)
(***************************************************************************)
\* start() called while a stop() call awaits the loop tasks: _running is
\* False by then, so it goes on, and appends its tasks to the list stop()
\* is going to clear
StartDuringStop ==
    /\ startCall = "idle"
    /\ stopCall.pc = "gather"
    /\ ~running
    /\ nstarts < MaxStarts
    /\ Cardinality(FreeIds) >= Len(LoopTiers(collectors))
    /\ running' = TRUE
    /\ LET tiers == LoopTiers(collectors)
           ids   == NewIds(Len(tiers))
       IN  /\ loops' = [i \in TaskIds |->
                          IF \E k \in 1 .. Len(tiers) : ids[k] = i
                          THEN create_task(tiers[CHOOSE k \in 1 .. Len(tiers) : ids[k] = i])
                          ELSE loops[i]]
           /\ tasks' = tasks \o ids
    /\ initPass' = [c \in Instances |-> "running"]
    /\ startCall' = "gather"
    /\ nstarts' = nstarts + 1
    /\ lastCall' = NoReturn
    /\ UNCHANGED <<collectors, settings, stopCall, metrics, clock>>
    /\ UNCHANGED outsideScheduler

\* stop() called while start() awaits its initial pass: the loop tasks are
\* cancelled, the collect() calls of the initial pass are not
StopDuringStart ==
    /\ stopCall.pc = "idle"
    /\ startCall = "gather"
    /\ running
    /\ running' = FALSE
    /\ loops' = [i \in TaskIds |->
                    IF i \in Range(tasks) /\ loops[i].pc # "done"
                    THEN [loops[i] EXCEPT !.cancel = TRUE]
                    ELSE loops[i]]
    /\ IF tasks = <<>>
       THEN /\ stopCall' = stopCall
            /\ lastCall' = Returned("stop")
       ELSE /\ stopCall' = [pc |-> "gather", await |-> Range(tasks)]
            /\ lastCall' = NoReturn
    /\ UNCHANGED <<collectors, settings, tasks, startCall, initPass, metrics,
                   clock, nstarts>>
    /\ UNCHANGED outsideScheduler

OverlapNext ==
    \/ Next
    \/ StartDuringStop
    \/ StopDuringStart

OverlapSpec == Init /\ [][OverlapNext]_vars

(***************************************************************************)
(* One collector polled again and again: collect() of base.py around the   *)
(* _collect_impl of a per-entity collector, a step being the run of the    *)
(* coroutine from one await of the client to the next                      *)
(***************************************************************************)
\* the variables of the tier scheduler a collector does not touch
schedulerOnly == <<settings, running, tasks, loops, startCall, initPass,
                   stopCall, nstarts, lastCall>>

\* the collector under study: the only one the manager holds
TheCollector == CHOOSE c \in Instances : TRUE

CollectorInit ==
    /\ \E c \in PerEntityCollectors : collectors = initialize_collectors({c})
    /\ enabled \in BOOLEAN
    /\ run = NoRun
    /\ gauges = NoSeries
    /\ metrics = [duration     |-> [l \in {DurationLabels(c) : c \in Instances} |-> 0],
                  errors       |-> [l \in {ErrorLabels(c, e) : c \in Instances, e \in ErrorTypes} |-> 0],
                  last_success |-> [c \in Instances |-> 0]]
    /\ clock = 1
    /\ settings \in IntervalChoices
    /\ running = FALSE
    /\ tasks = <<>>
    /\ loops = [i \in TaskIds |-> NoTask]
    /\ startCall = "idle"
    /\ initPass = [c \in Instances |-> "idle"]
    /\ stopCall = [pc |-> "idle", await |-> {}]
    /\ nstarts = 0
    /\ lastCall = NoReturn
    /\ ClientIdle
    /\ AppIdle

\* collect() is called and runs up to the listing call of _collect_impl, or,
\* the collector being disabled, to the end of _collect_impl
CollectBegin ==
    /\ run.pc = "idle"
    /\ run.n < MaxRuns
    /\ clock' = clock + 1
    /\ run' = [NoRun EXCEPT !.collector = TheCollector,
                            !.n = run.n + 1,
                            !.pc = IF read_flag(TheCollector, enabled) = "enabled"
                                   THEN "listing" ELSE "return",
                            !.impl = CASE read_flag(TheCollector, enabled) = "enabled" -> "none"
                                       [] read_flag(TheCollector, enabled) = "disabled" -> "ok"
                                       [] OTHER -> read_flag(TheCollector, enabled)]
    /\ UNCHANGED <<collectors, metrics, enabled, gauges, schedulerOnly, clientVars, appVars>>

\* a listing call whose failure clears the registry
ListingDoneClearing(out) ==
    /\ run.pc = "listing"
    /\ run' = after_listing(run.collector, run, out)
    /\ gauges' = IF out.raised THEN NoSeries ELSE gauges
    /\ UNCHANGED <<collectors, metrics, clock, enabled, schedulerOnly, clientVars, appVars>>

\* the listing call ends
ListingDone(out) ==
    /\ run.pc = "listing"
    /\ run' = after_listing(run.collector, run, out)
    /\ UNCHANGED <<collectors, metrics, clock, enabled, gauges, schedulerOnly, clientVars, appVars>>

\* the detail call of the next service ends and its answer is published
DetailDone(out) ==
    /\ run.pc = "detail"
    /\ LET service == run.services[run.next]
           s       == collect_service(run.collector, gauges, service, out)
       IN  /\ gauges' = s.gauges
           /\ run' = after_service([run EXCEPT !.answer = out], service, s)
    /\ UNCHANGED <<collectors, metrics, clock, enabled, schedulerOnly, clientVars, appVars>>

\* _collect_impl has ended and collect() accounts for it
CollectReturn ==
    /\ run.pc = "return"
    /\ LET out == collect(run.collector, run.impl, metrics, clock)
       IN  /\ metrics' = out.metrics
           /\ run' = [NoRun EXCEPT !.n = run.n, !.result = out.result]
    /\ UNCHANGED <<collectors, clock, enabled, gauges, schedulerOnly, clientVars, appVars>>

CollectorNext ==
    \/ CollectBegin
    \/ \E out \in ListingOutcomes : ListingDone(out)
    \/ \E out \in DetailOutcomes(TheCollector) : DetailDone(out)
    \/ CollectReturn

CollectorSpec == CollectorInit /\ [][CollectorNext]_vars

(***************************************************************************)
(* The collect() calls of the telephony collector, with answers that carry *)
(* call statistics of every kind                                           *)
(***************************************************************************)
TelephonyInit ==
    /\ CollectorInit
    /\ TheCollector = "TelephonyInfoCollector"

TelephonyNext ==
    \/ CollectBegin
    \/ \E out \in ListingOutcomes : ListingDone(out)
    \/ \E out \in CallStatsOutcomes : DetailDone(out)
    \/ CollectReturn

TelephonySpec == TelephonyInit /\ [][TelephonyNext]_vars

(***************************************************************************)
(* The same collect() calls for each of the five registered classes        *)
(***************************************************************************)
\* what collect() may count as error_type here
FlagErrorTypes == ErrorTypes \cup {"AttributeError"}

FlagInit ==
    /\ \E c \in CollectorClasses : collectors = initialize_collectors({c})
    /\ enabled \in BOOLEAN
    /\ run = NoRun
    /\ gauges = NoSeries
    /\ metrics = [duration     |-> [l \in {DurationLabels(c) : c \in Instances} |-> 0],
                  errors       |-> [l \in {ErrorLabels(c, e) : c \in Instances, e \in FlagErrorTypes} |-> 0],
                  last_success |-> [c \in Instances |-> 0]]
    /\ clock = 1
    /\ settings \in IntervalChoices
    /\ running = FALSE
    /\ tasks = <<>>
    /\ loops = [i \in TaskIds |-> NoTask]
    /\ startCall = "idle"
    /\ initPass = [c \in Instances |-> "idle"]
    /\ stopCall = [pc |-> "idle", await |-> {}]
    /\ nstarts = 0
    /\ lastCall = NoReturn
    /\ ClientIdle
    /\ AppIdle

FlagSpec == FlagInit /\ [][CollectorNext]_vars

(***************************************************************************)
(* The client under concurrent callers: request() of api/client.py, a step *)
(* being the run of a task from one await to the next                      *)
(***************************************************************************)
\* the variables request() does not touch
outsideClient ==
    <<collectors, metrics, clock, schedulerOnly, collectorVars, appVars>>

ClientInit ==
    /\ api_settings \in ApiSettingsChoices
    /\ semaphore = Semaphore(api_settings.concurrency_limit)
    /\ calls = [k \in Callers |-> NoCallOf]
    /\ api_requests_total = [s \in StatusCodes \cup {0} |-> 0]
    /\ nrequests = 0
    /\ collectors = initialize_collectors({})
    /\ enabled = TRUE
    /\ run = NoRun
    /\ gauges = NoSeries
    /\ metrics = [duration     |-> [l \in {DurationLabels(c) : c \in Instances} |-> 0],
                  errors       |-> [l \in {ErrorLabels(c, e) : c \in Instances, e \in ErrorTypes} |-> 0],
                  last_success |-> [c \in Instances |-> 0]]
    /\ clock = 1
    /\ settings \in IntervalChoices
    /\ running = FALSE
    /\ tasks = <<>>
    /\ loops = [i \in TaskIds |-> NoTask]
    /\ startCall = "idle"
    /\ initPass = [c \in Instances |-> "idle"]
    /\ stopCall = [pc |-> "idle", await |-> {}]
    /\ nstarts = 0
    /\ lastCall = NoReturn
    /\ AppIdle

\* request() of task k from its entry, or from the end of its backoff sleep,
\* to the await of acquire() or of the post
enter(call, sem, k) ==
    LET a == acquire(sem, k)
    IN  [sem  |-> a.sem,
         call |-> [call EXCEPT !.pc = a.pc,
                               !.attempts = IF a.pc = "post" THEN @ + 1 ELSE @]]

\* a task calls request()
RequestCall(k) ==
    /\ calls[k].pc = "idle"
    /\ nrequests < MaxRequests
    /\ nrequests' = nrequests + 1
    /\ LET e == enter(NoCallOf, semaphore, k)
       IN  /\ semaphore' = e.sem
           /\ calls' = [calls EXCEPT ![k] = e.call]
    /\ UNCHANGED <<api_settings, api_requests_total, outsideClient>>

\* a task that waited in acquire() has been given a permit and starts its post
Acquired(k) ==
    /\ calls[k].pc = "waiting"
    /\ ~calls[k].cancel
    /\ WaiterOf(semaphore, k).st = "result"
    /\ semaphore' = acquired(semaphore, k)
    /\ calls' = [calls EXCEPT ![k].pc = "post", ![k].attempts = @ + 1]
    /\ UNCHANGED <<api_settings, api_requests_total, nrequests, outsideClient>>

\* a request() that takes a 429 for a timeout
PostDoneRetrying(k, out) ==
    /\ calls[k].pc = "post"
    /\ ~calls[k].cancel
    /\ semaphore' = release(semaphore)
    /\ LET a == after_post(calls[k], api_requests_total,
                           IF out.status_code = 429
                           THEN [kind |-> "timeout", status_code |-> 0, body |-> "none"]
                           ELSE out,
                           api_settings.max_retries)
       IN  /\ calls' = [calls EXCEPT ![k] = a.call]
           /\ api_requests_total' = a.total
    /\ UNCHANGED <<api_settings, nrequests, outsideClient>>

\* the post of task k ends: the permit is given back, then request() returns,
\* raises or goes to its backoff sleep
PostDone(k, out) ==
    /\ calls[k].pc = "post"
    /\ ~calls[k].cancel
    /\ semaphore' = release(semaphore)
    /\ LET a == after_post(calls[k], api_requests_total, out,
                           api_settings.max_retries)
       IN  /\ calls' = [calls EXCEPT ![k] = a.call]
           /\ api_requests_total' = a.total
    /\ UNCHANGED <<api_settings, nrequests, outsideClient>>

\* asyncio.sleep(2**retry_count) ends and request() calls itself
BackoffDone(k) ==
    /\ calls[k].pc = "backoff"
    /\ ~calls[k].cancel
    /\ LET e == enter([calls[k] EXCEPT !.retry_count = @ + 1], semaphore, k)
       IN  /\ semaphore' = e.sem
           /\ calls' = [calls EXCEPT ![k] = e.call]
    /\ UNCHANGED <<api_settings, api_requests_total, nrequests, outsideClient>>

\* task.cancel() on a task inside request(): the future it waits for, if
\* still pending, is cancelled at once; the task itself runs later
Cancel(k) ==
    /\ calls[k].pc # "idle"
    /\ ~calls[k].cancel
    /\ calls' = [calls EXCEPT ![k].cancel = TRUE]
    /\ semaphore' =
          IF calls[k].pc = "waiting" /\ WaiterOf(semaphore, k).st = "pending"
          THEN [semaphore EXCEPT !.waiters =
                   [i \in DOMAIN @ |-> IF @[i].task = k
                                       THEN [@[i] EXCEPT !.st = "cancelled"]
                                       ELSE @[i]]]
          ELSE semaphore
    /\ UNCHANGED <<api_settings, api_requests_total, nrequests, outsideClient>>

\* a request() that takes and returns the permit by hand, without
\* `async with`: a CancelledError thrown into the post leaves the permit taken
RequestCancelledKeepingPermit(k) ==
    /\ calls[k].pc # "idle"
    /\ calls[k].cancel
    /\ semaphore' = CASE calls[k].pc = "waiting" -> acquire_cancelled(semaphore, k)
                      [] calls[k].pc = "post"    -> semaphore
                      [] calls[k].pc = "backoff" -> semaphore
    /\ calls' = [calls EXCEPT ![k].pc = "idle", ![k].cancel = FALSE,
                              ![k].result = "CancelledError"]
    /\ UNCHANGED <<api_settings, api_requests_total, nrequests, outsideClient>>

\* the CancelledError reaches request() at its await; no except clause of
\* request() catches it
RequestCancelled(k) ==
    /\ calls[k].pc # "idle"
    /\ calls[k].cancel
    /\ semaphore' = CASE calls[k].pc = "waiting" -> acquire_cancelled(semaphore, k)
                      [] calls[k].pc = "post"    -> release(semaphore)
                      [] calls[k].pc = "backoff" -> semaphore
    /\ calls' = [calls EXCEPT ![k].pc = "idle", ![k].cancel = FALSE,
                              ![k].result = "CancelledError"]
    /\ UNCHANGED <<api_settings, api_requests_total, nrequests, outsideClient>>

ClientNext ==
    \/ \E k \in Callers : RequestCall(k)
    \/ \E k \in Callers : Acquired(k)
    \/ \E k \in Callers, out \in PostOutcomes : PostDone(k, out)
    \/ \E k \in Callers : BackoffDone(k)
    \/ \E k \in Callers : Cancel(k)
    \/ \E k \in Callers : RequestCancelled(k)

ClientSpec == ClientInit /\ [][ClientNext]_vars

(***************************************************************************)
(* The tier loops over the shared client: the manager started once, every  *)
(* collect() call of the initial pass and of the loops' passes making its  *)
(* requests through request() of the one client, with its one semaphore    *)
(***************************************************************************)
\* the collect() calls there can be, each one a task of its own: of the
\* initial pass of start() (0) or of the pass of a loop task, by collector
Sites == (TaskIds \cup {0}) \X Instances

\* the collect() call of site k is in flight
SiteRunning(k) ==
    IF k[1] = 0
    THEN /\ startCall = "gather"
         /\ \A t \in TaskIds : loops[t].pc # "created"
         /\ initPass[k[2]] = "running"
    ELSE /\ loops[k[1]].pc = "collecting"
         /\ k[2] \in DOMAIN loops[k[1]].inv
         /\ loops[k[1]].inv[k[2]] = "running"

\* the collectors the manager holds: one of the fast tier, one of the medium
TierCollectors == {"BroadbandQuotaCollector", "BroadbandInfoCollector"}

\* what the posts end with, sooner or later: an answer
TierOutcomes ==
    {out \in PostOutcomes :
        out.kind = "response" /\ out.status_code = 200 /\ out.body = "data"}

\* the settings of the client: no retry, so that no request sleeps
TierSettings == {s \in ApiSettingsChoices : s.max_retries = 0}

\* what _collect_impl can end with after its last request: it returns when
\* it has made no request (collector disabled), when the request returned,
\* and when the failure was one of a service, caught and logged; it raises
\* what the listing call raised
ImplResults(call) ==
    {"ok"} \cup (IF call.result \in ErrorTypes THEN {call.result} ELSE {})

TierInit ==
    /\ collectors = initialize_collectors(TierCollectors)
    /\ api_settings \in TierSettings
    /\ semaphore = Semaphore(api_settings.concurrency_limit)
    /\ calls = [k \in Sites |-> NoCallOf]
    /\ api_requests_total = [s \in StatusCodes \cup {0} |-> 0]
    /\ nrequests = 0
    /\ settings \in IntervalChoices
    /\ running = FALSE
    /\ tasks = <<>>
    /\ loops = [i \in TaskIds |-> NoTask]
    /\ startCall = "idle"
    /\ initPass = [c \in Instances |-> "idle"]
    /\ stopCall = [pc |-> "idle", await |-> {}]
    /\ metrics = [duration     |-> [l \in {DurationLabels(c) : c \in Instances} |-> 0],
                  errors       |-> [l \in {ErrorLabels(c, e) : c \in Instances, e \in ErrorTypes} |-> 0],
                  last_success |-> [c \in Instances |-> 0]]
    /\ clock = 1
    /\ nstarts = 0
    /\ lastCall = NoReturn
    /\ enabled = TRUE
    /\ run = NoRun
    /\ gauges = NoSeries
    /\ AppIdle

\* the collect() call of site k calls request()
SiteRequest(k) ==
    /\ SiteRunning(k)
    /\ RequestCall(k)

\* the collect() call of site k ends, its _collect_impl ending with impl
SiteCollectDone(k, impl) ==
    /\ SiteRunning(k)
    /\ calls[k].pc = "idle"
    /\ impl \in ImplResults(calls[k])
    /\ Collects < MaxCollects
    /\ calls' = [calls EXCEPT ![k] = NoCallOf]
    /\ LET out == collect(k[2], impl, metrics, clock)
       IN  /\ metrics' = out.metrics
           /\ IF k[1] = 0
              THEN /\ initPass' = [initPass EXCEPT ![k[2]] = out.result]
                   /\ loops' = loops
              ELSE /\ loops' = [loops EXCEPT ![k[1]].inv[k[2]] = out.result]
                   /\ initPass' = initPass
    /\ lastCall' = NoReturn
    /\ UNCHANGED <<collectors, settings, running, tasks, startCall, stopCall,
                   clock, nstarts, collectorVars, api_settings, semaphore,
                   api_requests_total, nrequests, appVars>>

TierNext ==
    \/ Start
    \/ StartReturn
    \/ \E t \in TaskIds : LoopStart(t)
    \/ \E t \in TaskIds : SleepDone(t)
    \/ \E t \in TaskIds : PassDone(t)
    \/ \E k \in Sites : SiteRequest(k)
    \/ \E k \in Sites : Acquired(k)
    \/ \E k \in Sites, out \in TierOutcomes : PostDone(k, out)
    \/ \E k \in Sites, impl \in {"ok"} \cup ErrorTypes : SiteCollectDone(k, impl)

TierSpec == TierInit /\ [][TierNext]_vars

(***************************************************************************)
(* The settings under construction: UpdateIntervals of core/config.py      *)
(***************************************************************************)
\* what the construction and the queries of the settings leave alone
outsideConfig ==
    <<collectors, metrics, clock, settings, running, tasks, loops, startCall,
      initPass, stopCall, nstarts, collectorVars, clientVars, app, registries,
      shared, instances>>

ConfigInit ==
    /\ config = NoConfig
    /\ app = [pc |-> "none"]
    /\ registries = <<>>
    /\ shared = <<>>
    /\ instances = <<>>
    /\ collectors = initialize_collectors({})
    /\ enabled = TRUE
    /\ run = NoRun
    /\ gauges = NoSeries
    /\ metrics = [duration     |-> [l \in {DurationLabels(c) : c \in Instances} |-> 0],
                  errors       |-> [l \in {ErrorLabels(c, e) : c \in Instances, e \in ErrorTypes} |-> 0],
                  last_success |-> [c \in Instances |-> 0]]
    /\ clock = 1
    /\ settings \in IntervalChoices
    /\ running = FALSE
    /\ tasks = <<>>
    /\ loops = [i \in TaskIds |-> NoTask]
    /\ startCall = "idle"
    /\ initPass = [c \in Instances |-> "idle"]
    /\ stopCall = [pc |-> "idle", await |-> {}]
    /\ nstarts = 0
    /\ lastCall = NoReturn
    /\ ClientIdle

\* UpdateIntervals(**kw) is called
ConstructIntervals(kw) ==
    /\ config' = [config EXCEPT !.built = TRUE, !.kwargs = kw,
                                !.intervals = UpdateIntervals(kw)]
    /\ lastCall' = [op  |-> "UpdateIntervals",
                    ret |-> <<IF UpdateIntervals(kw).ok
                              THEN "ok" ELSE "ValidationError">>]
    /\ UNCHANGED outsideConfig

\* get_interval(tier) is called on the object the last construction built
GetInterval(tier) ==
    /\ config.built
    /\ config.intervals.ok
    /\ lastCall' = [op  |-> "get_interval",
                    ret |-> <<tier, get_interval(config.intervals, tier)>>]
    /\ UNCHANGED <<config, outsideConfig>>

ConfigNext ==
    \/ \E kw \in IntervalKwargs : ConstructIntervals(kw)
    \/ \E tier \in TierSet : GetInterval(tier)

ConfigSpec == ConfigInit /\ [][ConfigNext]_vars

(***************************************************************************)
(* app.py: ExporterApp, its lifespan and its health endpoint.  The manager *)
(* is seen through its interface: start() sets the running flag and awaits *)
(* the initial pass, stop() clears the flag and awaits the loops; in       *)
(* between, collect() calls end and record their outcome.                  *)
(***************************************************************************)
\* AuthSettings.has_control_auth, has_account_auth and has_any_auth: a
\* field that is None or empty counts for nothing
has_control_auth(auth) == auth.control_login # "" /\ auth.control_password # ""

has_account_auth(auth) == auth.account_number # "" /\ auth.account_password # ""

has_any_auth(auth) == has_control_auth(auth) \/ has_account_auth(auth)

\* a validate_auth() that never raises
validate_auth_accepting(auth) == "ok"

\* Settings.validate_auth: what it raises, or "ok"
validate_auth(auth) == IF has_any_auth(auth) THEN "ok" ELSE "ValueError"

\* the credentials the model runs with: every field given or not
AuthChoices ==
    [control_login : {"", "test@a"}, control_password : {"", "password"},
     account_number : {"", "A1234A"}, account_password : {"", "password"}]

\* ExporterApp(settings): no client, no manager
NewApp == [pc |-> "created", client |-> "None", collector_manager |-> FALSE]

\* the values of the health response, by what they are
HealthStr(s) == [t |-> "str", v |-> s]

HealthStatus(st) == [t |-> "manager_status", v |-> st]

\* the health() handler: the dict it returns
health ==
    LET manager == app.collector_manager
        stopped == manager /\ ~get_status.running
        closed  == app.client = "disconnected"
        status  == IF ~manager \/ stopped \/ closed
                   THEN "unhealthy" ELSE "healthy"
        keys    == {"status", "version"}
                   \cup (IF manager THEN {"collectors"} ELSE {})
                   \cup (IF ~manager \/ closed THEN {"error"} ELSE {})
    IN  [k \in keys |->
            CASE k = "status"     -> HealthStr(status)
              [] k = "version"    -> HealthStr("__version__")
              [] k = "collectors" -> HealthStatus(get_status)
              [] k = "error"      ->
                    HealthStr(IF closed THEN "API client not connected"
                              ELSE "Collector manager not initialized")]

\* what the application leaves alone
outsideApp ==
    <<settings, tasks, loops, startCall, initPass, stopCall, collectorVars,
      clientVars, registries, shared, instances>>

AppInit ==
    /\ \E auth \in AuthChoices : config = [NoConfig EXCEPT !.built = TRUE,
                                                          !.auth = auth]
    /\ app = NewApp
    /\ registries = <<>>
    /\ shared = <<>>
    /\ instances = <<>>
    /\ collectors = initialize_collectors({})
    /\ enabled = TRUE
    /\ run = NoRun
    /\ gauges = NoSeries
    /\ metrics = [duration     |-> [l \in {DurationLabels(c) : c \in CollectorClasses} |-> 0],
                  errors       |-> [l \in {ErrorLabels(c, e) : c \in CollectorClasses, e \in ErrorTypes} |-> 0],
                  last_success |-> [c \in CollectorClasses |-> 0]]
    /\ clock = 1
    /\ settings \in IntervalChoices
    /\ running = FALSE
    /\ tasks = <<>>
    /\ loops = [i \in TaskIds |-> NoTask]
    /\ startCall = "idle"
    /\ initPass = [c \in Instances |-> "idle"]
    /\ stopCall = [pc |-> "idle", await |-> {}]
    /\ nstarts = 0
    /\ lastCall = NoReturn
    /\ ClientIdle

\* the lifespan is entered: validate_auth() raises, or the client is built
\* and started, the manager is built and its start() runs up to the await
\* of the initial pass; no step of this suspends
LifespanEnter ==
    /\ app.pc = "created"
    /\ IF validate_auth(config.auth) = "ok"
       THEN /\ app' = [pc |-> "starting", client |-> "connected",
                       collector_manager |-> TRUE]
            /\ collectors' = initialize_collectors(CollectorClasses)
            /\ running' = TRUE
            /\ nstarts' = nstarts + 1
            /\ lastCall' = NoReturn
       ELSE /\ app' = [app EXCEPT !.pc = "aborted"]
            /\ lastCall' = [op |-> "lifespan", ret |-> <<validate_auth(config.auth)>>]
            /\ UNCHANGED <<collectors, running, nstarts>>
    /\ UNCHANGED <<config, metrics, clock, outsideApp>>

\* the initial pass is over, start() returns and the application serves
LifespanStarted ==
    /\ app.pc = "starting"
    /\ app' = [app EXCEPT !.pc = "serving"]
    /\ lastCall' = NoReturn
    /\ UNCHANGED <<config, collectors, running, nstarts, metrics, clock, outsideApp>>

\* a collect() call of the initial pass or of a loop's pass ends
AppCollectDone(c, impl) ==
    /\ app.collector_manager
    /\ running
    /\ Collects < MaxCollects
    /\ metrics' = collect(c, impl, metrics, clock).metrics
    /\ lastCall' = NoReturn
    /\ UNCHANGED <<config, app, collectors, running, nstarts, clock, outsideApp>>

\* shutdown: stop() clears the running flag and awaits the loops
LifespanShutdown ==
    /\ app.pc = "serving"
    /\ app' = [app EXCEPT !.pc = "stopping"]
    /\ running' = FALSE
    /\ lastCall' = NoReturn
    /\ UNCHANGED <<config, collectors, nstarts, metrics, clock, outsideApp>>

\* stop() has returned; close() of the client awaits aclose()
LifespanStopped ==
    /\ app.pc = "stopping"
    /\ app' = [app EXCEPT !.pc = "closing"]
    /\ lastCall' = NoReturn
    /\ UNCHANGED <<config, collectors, running, nstarts, metrics, clock, outsideApp>>

\* aclose() has returned: the client holds no connection any more
LifespanClosed ==
    /\ app.pc = "closing"
    /\ app' = [app EXCEPT !.pc = "done", !.client = "disconnected"]
    /\ lastCall' = NoReturn
    /\ UNCHANGED <<config, collectors, running, nstarts, metrics, clock, outsideApp>>

\* a GET /health
Health ==
    /\ lastCall' = [op |-> "health", ret |-> <<health>>]
    /\ UNCHANGED <<config, app, collectors, running, nstarts, metrics, clock,
                   outsideApp>>

AppNext ==
    \/ LifespanEnter
    \/ LifespanStarted
    \/ \E c \in CollectorClasses, impl \in {"ok"} \cup ErrorTypes :
          AppCollectDone(c, impl)
    \/ LifespanShutdown
    \/ LifespanStopped
    \/ LifespanClosed
    \/ Health

AppSpec == AppInit /\ [][AppNext]_vars

(***************************************************************************)
(* Metric instruments and their registries.  A metric name is the sequence *)
(* of its words ("aaisp_x_total" is <<"aaisp", "x", "total">>); a registry *)
(* holds instruments and refuses one whose time series are taken.          *)
(***************************************************************************)
\* the registry of the application and one more (a test's, a second app's)
Registries == {"app", "other"}

\* collectors built on the other registry
MaxOther == 1

Gauge(name) == [kind |-> "gauge", name |-> name]

Counter(name) == [kind |-> "counter", name |-> name]

Histogram(name) == [kind |-> "histogram", name |-> name]

\* the time series an instrument claims in its registry: a counter drops a
\* final "_total" from its name and claims the name with and without it and
\* "_created"; a histogram claims its name and four suffixed ones
Series(m) ==
    CASE m.kind = "gauge" -> {m.name}
      [] m.kind = "counter" ->
            LET n    == Len(m.name)
                base == IF m.name[n] = "total" THEN SubSeq(m.name, 1, n - 1)
                        ELSE m.name
            IN  {base, base \o <<"total">>, base \o <<"created">>}
      [] m.kind = "histogram" ->
            {m.name} \cup {m.name \o <<s>> : s \in {"bucket", "sum", "count", "created"}}

\* a series of the instrument is already taken in the registry
Duplicated(reg, m) == \E x \in reg : Series(x) \cap Series(m) # {}

\* a registry that takes whatever it is given
register_unchecked(reg, m) == [ok |-> TRUE, reg |-> reg \cup {m}]

\* CollectorRegistry.register, called by the instrument's constructor:
\* ValueError, and nothing registered, when a series is taken
register(reg, m) ==
    IF Duplicated(reg, m)
    THEN [ok |-> FALSE, reg |-> reg]
    ELSE [ok |-> TRUE, reg |-> reg \cup {m}]

\* the three instruments every collector shares, in the order of __init__
SharedAttrs == <<"_collector_duration", "_collector_errors", "_collector_last_success">>

SharedMetric(attr) ==
    CASE attr = "_collector_duration" ->
            Histogram(<<"aaisp", "collector", "duration", "seconds">>)
      [] attr = "_collector_errors" ->
            Counter(<<"aaisp", "collector", "errors", "total">>)
      [] attr = "_collector_last_success" ->
            Gauge(<<"aaisp", "collector", "last", "successful", "collection", "timestamp">>)

\* the instruments of each class, in the order of _initialize_metrics
OwnMetrics(cls) ==
    CASE cls = "BroadbandQuotaCollector" ->
            << Gauge(<<"aaisp", "broadband", "quota", "total", "bytes">>),
               Gauge(<<"aaisp", "broadband", "quota", "used", "bytes">>),
               Gauge(<<"aaisp", "broadband", "quota", "remaining", "bytes">>),
               Gauge(<<"aaisp", "broadband", "quota", "percentage">>) >>
      [] cls = "BroadbandInfoCollector" ->
            << Gauge(<<"aaisp", "broadband", "line", "sync", "download", "bps">>),
               Gauge(<<"aaisp", "broadband", "line", "sync", "upload", "bps">>),
               Gauge(<<"aaisp", "broadband", "throughput", "download", "bps">>),
               Gauge(<<"aaisp", "broadband", "throughput", "upload", "bps">>),
               Gauge(<<"aaisp", "broadband", "service", "up">>),
               Gauge(<<"aaisp", "broadband", "line", "state">>),
               Gauge(<<"aaisp", "broadband", "service", "info">>) >>
      [] cls = "BroadbandUsageCollector" ->
            << Gauge(<<"aaisp", "broadband", "usage", "download", "bytes">>),
               Gauge(<<"aaisp", "broadband", "usage", "upload", "bytes">>) >>
      [] cls = "TelephonyInfoCollector" ->
            << Gauge(<<"aaisp", "telephony", "service", "info">>),
               Counter(<<"aaisp", "telephony", "calls", "total">>),
               Counter(<<"aaisp", "telephony", "call", "duration", "seconds", "total">>),
               Counter(<<"aaisp", "telephony", "call", "cost", "total">>),
               Gauge(<<"aaisp", "telephony", "active", "calls">>) >>
      [] cls = "TelephonyRateCardCollector" ->
            << Gauge(<<"aaisp", "telephony", "rate", "ppm">>),
               Gauge(<<"aaisp", "telephony", "rate", "min", "charge", "pence">>),
               Gauge(<<"aaisp", "telephony", "prefixes", "total">>),
               Gauge(<<"aaisp", "telephony", "ratecard", "last", "updated",
                       "timestamp", "seconds">>) >>

\* what the application's registry holds when the collectors are built:
\* the two gauges of ExporterApp and the two instruments of the client
AppMetrics ==
    { Gauge(<<"aaisp", "exporter", "build", "info">>),
      Gauge(<<"aaisp", "exporter", "up">>),
      Counter(<<"aaisp", "api", "requests", "total">>),
      Histogram(<<"aaisp", "api", "request", "duration", "seconds">>) }

\* a class attribute that holds no instrument yet
NoInstrument == [kind |-> "None", name |-> <<>>, registry |-> "None"]

NoShared == [attr \in Range(SharedAttrs) |-> [inst |-> NoInstrument, created |-> 0]]

\* a guard that finds every class attribute empty
is_none_always(sh, attr) == TRUE

\* "if MetricCollector._collector_x is None"
is_none(sh, attr) == sh[attr].inst = NoInstrument

\* the shared part of MetricCollector.__init__, from the i-th attribute on:
\* an attribute that is still None gets its instrument, registered in the
\* registry of this construction
RECURSIVE init_shared(_, _, _, _)
init_shared(sh, regs, r, i) ==
    IF i > Len(SharedAttrs) THEN [ok |-> TRUE, shared |-> sh, registries |-> regs]
    ELSE LET attr == SharedAttrs[i]
             m    == SharedMetric(attr)
             res  == register(regs[r], m)
         IN  IF ~is_none(sh, attr)
             THEN init_shared(sh, regs, r, i + 1)
             ELSE IF ~res.ok
             THEN [ok |-> FALSE, shared |-> sh, registries |-> regs]
             ELSE init_shared(
                     [sh EXCEPT ![attr] = [inst |-> [kind |-> m.kind, name |-> m.name,
                                                     registry |-> r],
                                           created |-> @.created + 1]],
                     [regs EXCEPT ![r] = res.reg], r, i + 1)

\* _initialize_metrics of a class, from its i-th instrument on: the first
\* refused instrument ends it, the earlier ones stay registered
RECURSIVE initialize_metrics(_, _, _)
initialize_metrics(ms, reg, i) ==
    IF i > Len(ms) THEN [ok |-> TRUE, reg |-> reg]
    ELSE LET res == register(reg, ms[i])
         IN  IF ~res.ok THEN [ok |-> FALSE, reg |-> reg]
             ELSE initialize_metrics(ms, res.reg, i + 1)

\* cls(client, settings, registry): MetricCollector.__init__
MetricCollector(cls, r, sh, regs) ==
    LET s == init_shared(sh, regs, r, 1)
        o == initialize_metrics(OwnMetrics(cls), s.registries[r], 1)
    IN  IF ~s.ok THEN s
        ELSE [ok |-> o.ok, shared |-> s.shared,
              registries |-> [s.registries EXCEPT ![r] = o.reg]]

\* the instrument a collector instance records into: the attribute is
\* looked up on the class
instrument_of(inst, attr) == shared[attr].inst

\* instruments a collector of the application may ask _create_gauge and
\* _create_counter for besides the ones above
ProbeMetrics ==
    { Gauge(<<"aaisp", "telephony", "calls">>),
      Gauge(<<"aaisp", "telephony", "calls", "total">>),
      Counter(<<"aaisp", "telephony", "calls">>) }

\* what the registries leave alone
outsideRegistry ==
    <<collectors, settings, running, tasks, loops, startCall, initPass,
      stopCall, metrics, clock, nstarts, collectorVars, clientVars, config, app>>

RegistryInit ==
    /\ registries = [r \in Registries |-> IF r = "app" THEN AppMetrics ELSE {}]
    /\ shared = NoShared
    /\ instances = {}
    /\ config = NoConfig
    /\ app = [pc |-> "none"]
    /\ collectors = initialize_collectors({})
    /\ enabled = TRUE
    /\ run = NoRun
    /\ gauges = NoSeries
    /\ metrics = [duration     |-> [l \in {DurationLabels(c) : c \in Instances} |-> 0],
                  errors       |-> [l \in {ErrorLabels(c, e) : c \in Instances, e \in ErrorTypes} |-> 0],
                  last_success |-> [c \in Instances |-> 0]]
    /\ clock = 1
    /\ settings \in IntervalChoices
    /\ running = FALSE
    /\ tasks = <<>>
    /\ loops = [i \in TaskIds |-> NoTask]
    /\ startCall = "idle"
    /\ initPass = [c \in Instances |-> "idle"]
    /\ stopCall = [pc |-> "idle", await |-> {}]
    /\ nstarts = 0
    /\ lastCall = NoReturn
    /\ ClientIdle

\* a collector class is constructed on a registry
Construct(cls, r) ==
    \E res \in {MetricCollector(cls, r, shared, registries)} :
        /\ r = "other" => Cardinality({i \in instances : i.registry = r}) < MaxOther
        /\ shared' = res.shared
        /\ registries' = res.registries
        /\ instances' = IF res.ok THEN instances \cup {[cls |-> cls, registry |-> r]}
                        ELSE instances
        /\ lastCall' = [op |-> "construct",
                        ret |-> <<cls, r, IF res.ok THEN "ok" ELSE "ValueError">>]
        /\ UNCHANGED outsideRegistry

\* a collector of the application asks for an instrument under some name:
\* _create_gauge, _create_counter
CreateMetric(m) ==
    \E res \in {register(registries["app"], m)} :
        /\ registries' = [registries EXCEPT !["app"] = res.reg]
        /\ lastCall' = [op |-> "create",
                        ret |-> <<m, "app", IF res.ok THEN "ok" ELSE "ValueError">>]
        /\ UNCHANGED <<shared, instances, outsideRegistry>>

RegistryNext ==
    \/ \E cls \in CollectorClasses, r \in Registries : Construct(cls, r)
    \/ \E m \in ProbeMetrics : CreateMetric(m)

RegistrySpec == RegistryInit /\ [][RegistryNext]_vars

(***************************************************************************)
(* CollectorManager(client, settings, registry): the constructor builds    *)
(* every registered class on the registry it is given                      *)
(***************************************************************************)
\* the registered classes in the order _initialize_collectors visits them
ClassOrder ==
    get_collectors(UpdateTier[1]) \o get_collectors(UpdateTier[2])
        \o get_collectors(UpdateTier[3])

\* a loop without try/except: the first constructor that raises ends it
RECURSIVE construct_collectors_stopping(_, _, _, _, _)
construct_collectors_stopping(i, r, sh, regs, ok) ==
    IF i > Len(ClassOrder) THEN [ok |-> ok, shared |-> sh, registries |-> regs]
    ELSE LET res == MetricCollector(ClassOrder[i], r, sh, regs)
         IN  IF res.ok
             THEN construct_collectors_stopping(i + 1, r, res.shared, res.registries,
                                                ok \cup {ClassOrder[i]})
             ELSE [ok |-> ok, shared |-> res.shared, registries |-> res.registries]

\* the loops of _initialize_collectors from the i-th class on: ok are the
\* classes constructed so far; what a constructor that raises has already
\* registered stays registered
RECURSIVE construct_collectors(_, _, _, _, _)
construct_collectors(i, r, sh, regs, ok) ==
    IF i > Len(ClassOrder) THEN [ok |-> ok, shared |-> sh, registries |-> regs]
    ELSE LET res == MetricCollector(ClassOrder[i], r, sh, regs)
         IN  construct_collectors(i + 1, r, res.shared, res.registries,
                                  IF res.ok THEN ok \cup {ClassOrder[i]} ELSE ok)

\* a CollectorManager is constructed on registry r: the manager the model
\* looks at from now on
NewManager(r) ==
    \E res \in {construct_collectors(1, r, shared, registries, {})} :
        /\ collectors' = initialize_collectors(res.ok)
        /\ shared' = res.shared
        /\ registries' = res.registries
        /\ instances' = instances \cup {[cls |-> cls, registry |-> r] : cls \in res.ok}
        /\ running' = FALSE
        /\ tasks' = <<>>
        /\ lastCall' = [op |-> "manager", ret |-> <<r, "ok">>]
        /\ UNCHANGED <<settings, loops, startCall, initPass, stopCall, metrics,
                       clock, nstarts, collectorVars, clientVars, config, app>>

\* the application builds its manager on its own registry; collectors built
\* there before, and instruments created there, are what makes a constructor
\* of the manager fail
ManagerNext ==
    \/ \E cls \in CollectorClasses : Construct(cls, "app")
    \/ \E m \in ProbeMetrics : CreateMetric(m)
    \/ NewManager("app")

ManagerSpec == RegistryInit /\ [][ManagerNext]_vars

(***************************************************************************)
(* _parse_bytes called on every kind of value json.loads can put in a      *)
(* field of an answer                                                      *)
(***************************************************************************)
\* an int beyond the range of float, 2**1024 and above in absolute value:
\* json.loads reads an integer literal of any length as an int
BigInt(sign) == [t |-> "bigint", v |-> sign]

\* float(value) for an int, a float or a str: OverflowError for an int out
\* of range, ValueError for a string that is no number
float(value) ==
    CASE value.t = "number" -> [raised |-> FALSE, error |-> "none", v |-> value.v]
      [] value.t = "bigint" -> [raised |-> TRUE, error |-> "OverflowError", v |-> 0]
      [] value.t = "numstr" -> [raised |-> FALSE, error |-> "none", v |-> value.v]
      [] value.t = "str"    -> [raised |-> TRUE, error |-> "ValueError", v |-> 0]

\* BroadbandUsageCollector._parse_bytes with what it raises: float(value)
\* of an int or a float is returned as it is, outside any try; float(value)
\* of a str is inside `try ... except ValueError`
parse_bytes_call(value) ==
    IF value.t \in {"number", "bigint"}
    THEN float(value)
    ELSE IF IsStr(value)
         THEN IF float(value).raised /\ float(value).error = "ValueError"
              THEN [raised |-> FALSE, error |-> "none", v |-> 0]
              ELSE float(value)
         ELSE [raised |-> FALSE, error |-> "none", v |-> 0]

\* the values _parse_bytes is called with
ParseInputs ==
    {Num(n) : n \in -MaxValue .. MaxValue}
        \cup {NumStr(n) : n \in -MaxValue .. MaxValue}
        \cup {Txt(x) : x \in {"invalid", "", "unlimited"}}
        \cup {Null, Dict(EmptyDict), BigInt(1), BigInt(-1)}

ParseInit ==
    /\ lastCall = NoReturn
    /\ collectors = initialize_collectors({})
    /\ enabled = TRUE
    /\ run = NoRun
    /\ gauges = NoSeries
    /\ metrics = [duration     |-> [l \in {DurationLabels(c) : c \in Instances} |-> 0],
                  errors       |-> [l \in {ErrorLabels(c, e) : c \in Instances, e \in ErrorTypes} |-> 0],
                  last_success |-> [c \in Instances |-> 0]]
    /\ clock = 1
    /\ settings \in IntervalChoices
    /\ running = FALSE
    /\ tasks = <<>>
    /\ loops = [i \in TaskIds |-> NoTask]
    /\ startCall = "idle"
    /\ initPass = [c \in Instances |-> "idle"]
    /\ stopCall = [pc |-> "idle", await |-> {}]
    /\ nstarts = 0
    /\ ClientIdle
    /\ AppIdle

\* self._parse_bytes(value) is called and returns or raises
ParseBytes(value) ==
    /\ lastCall' = [op |-> "parse_bytes", ret |-> <<value, parse_bytes_call(value)>>]
    /\ UNCHANGED <<collectors, settings, running, tasks, loops, startCall,
                   initPass, stopCall, metrics, clock, nstarts, collectorVars,
                   clientVars, appVars>>

ParseNext == \E value \in ParseInputs : ParseBytes(value)

ParseSpec == ParseInit /\ [][ParseNext]_vars

(***************************************************************************)
(* Properties of the tier scheduler                                        *)
(***************************************************************************)
NonEmptyTiers == {tier \in TierSet : collectors[tier] # <<>>}

\* C1: in every pass of collect_tier, whichever collectors of the tier raise
\* from collect(), every other collector of the tier has been invoked, stays
\* in flight when a sibling fails, runs to its end and applies its metric
\* updates, and collect_tier ends only when all of them have finished, and
\* without raising.
C1_FanOutIsolation ==
    [][ /\ \A t \in TaskIds :
            /\ (loops[t].pc # "collecting" /\ loops'[t].pc = "collecting")
                  => \A c \in Range(collectors[loops'[t].tier]) :
                         loops'[t].inv[c] = "running"
            /\ (loops[t].pc = "collecting" /\ loops'[t].pc = "sleeping")
                  => /\ \A c \in Range(collectors[loops[t].tier]) :
                            Finished(loops[t].inv[c])
                     /\ loops'[t].tier_result = "returned"
            /\ \A c \in DOMAIN loops[t].inv :
                  /\ (loops[t].inv[c] = "running" /\ loops'[t].inv[c] \in ErrorTypes)
                        => /\ loops'[t].pc = "collecting"
                           /\ \A d \in DOMAIN loops[t].inv \ {c} :
                                  loops'[t].inv[d] = loops[t].inv[d]
                  /\ (loops[t].inv[c] = "running" /\ loops'[t].inv[c] = "ok")
                        => /\ metrics'.duration[DurationLabels(c)]
                                  = metrics.duration[DurationLabels(c)] + 1
                           /\ metrics'.last_success[c] = clock
        /\ (startCall = "gather" /\ startCall' = "idle")
              => \A c \in Instances : Finished(initPass[c])
        /\ \A c \in Instances :
              (initPass[c] = "running" /\ initPass'[c] \in ErrorTypes)
                  => \A d \in Instances \ {c} : initPass'[d] = initPass[d]
      ]_vars

\* a pass in which one collector of the tier has raised and another one has
\* run to its end
C1_Witness ==
    \E t \in TaskIds :
        /\ loops[t].pc = "collecting"
        /\ \E c, d \in DOMAIN loops[t].inv :
              /\ loops[t].inv[c] \in ErrorTypes
              /\ loops[t].inv[d] = "ok"
              /\ metrics.last_success[d] > 0

\* C2: an exception of a collector's collect() never ends a tier loop: a
\* loop whose pass is over goes to sleep, whatever the collectors did, a loop
\* whose sleep is over starts its next pass, and a loop ends only when it has
\* been cancelled.
C2_LoopSurvivesFailures ==
    [][ \A t \in TaskIds :
           /\ (Alive(loops[t]) /\ ~Alive(loops'[t])) => loops[t].cancel
           /\ (loops[t].pc = "collecting" /\ loops'[t].pc # "collecting"
                  /\ ~loops[t].cancel)
                 => loops'[t].pc = "sleeping"
           /\ (loops[t].pc = "sleeping" /\ loops'[t].pc # "sleeping"
                  /\ ~loops[t].cancel)
                 => /\ loops'[t].pc = "collecting"
                    /\ loops'[t].passes = loops[t].passes + 1
      ]_vars

\* a loop in its second pass, every collector of which has never succeeded:
\* all of them failed in its first pass
C2_Witness ==
    \E t \in TaskIds :
        /\ loops[t].pc = "collecting"
        /\ loops[t].passes = 2
        /\ \A c \in DOMAIN loops[t].inv : metrics.duration[DurationLabels(c)] = 0

\* C3: when start() returns from a manager that was not running,
\* get_status() reports running = true and every collector of every tier has
\* ended a collect() call of the initial pass, with a result or an exception;
\* no sleep had to end for that.
C3_StartReturnsAfterInitialPass ==
    [][ lastCall'.op = "start"
           => /\ get_status'.running
              /\ \A c \in Instances : Finished(initPass[c])
              /\ Collects >= Cardinality(Instances)
      ]_vars

\* start() has just returned, with collectors in the manager
C3_Witness ==
    /\ lastCall.op = "start"
    /\ Instances # {}
    /\ running
    /\ clock = 1

\* C4: stop() on a running manager returns only when every tier loop task
\* is over; once it has returned get_status() reports running = false and no
\* tier loop is left to make another pass.
C4_StopWaitsForLoops ==
    /\ [][ lastCall'.op = "stop"
              => /\ \A t \in TaskIds : ~Alive(loops'[t])
                 /\ ~get_status'.running
         ]_vars
    /\ []((~running /\ NoCall) => \A t \in TaskIds : ~Alive(loops[t]))

\* stop() has just returned on a manager that had loops
C4_Witness ==
    /\ lastCall.op = "stop"
    /\ NonEmptyTiers # {}
    /\ ~running

\* C5 as stated: there is no state in which running is false while a tier
\* loop is alive.
C5_Original == ~running => \A t \in TaskIds : ~Alive(loops[t])

\* C5: stop() marks the manager not running before the loops are over:
\* running is false while a tier loop is alive only during a stop() call that
\* awaits this loop and has cancelled it.
C5_NotRunningWithLoopsOnlyInStop ==
    \A t \in TaskIds :
        (~running /\ Alive(loops[t]))
            => /\ stopCall.pc = "gather"
               /\ t \in stopCall.await
               /\ loops[t].cancel

\* stop() is awaiting a loop that is still alive
C5_Witness ==
    /\ ~running
    /\ stopCall.pc = "gather"
    /\ \E t \in TaskIds : Alive(loops[t])

\* C6: a running manager has exactly one polling loop for every tier with a
\* collector and none for a tier without: the task list holds as many tasks
\* as there are non-empty tiers, at most 3, and every loop alive is in it.
C6_OneLoopPerNonEmptyTier ==
    running =>
        /\ \A tier \in TierSet :
              Cardinality({i \in DOMAIN tasks : loops[tasks[i]].tier = tier})
                  = IF collectors[tier] # <<>> THEN 1 ELSE 0
        /\ Len(tasks) = Cardinality(NonEmptyTiers)
        /\ Len(tasks) <= 3
        /\ \A t \in TaskIds : Alive(loops[t]) => t \in Range(tasks)

\* a running manager with a tier that has collectors and a tier that has none
C6_Witness ==
    /\ running
    /\ NonEmptyTiers # {}
    /\ NonEmptyTiers # TierSet
    /\ Len(tasks) = Cardinality(NonEmptyTiers)

\* collect() calls of collector c made since start() was called, while start()
\* awaits the initial pass and loop t has not slept
InvocationsBeforeFirstSleep(t, c) ==
    (IF initPass[c] # "idle" THEN 1 ELSE 0)
        + (IF loops[t].inv[c] # "idle" THEN 1 ELSE 0)

\* C7 as stated: between the call of start() and the first sleep of its tier
\* loop, collect() of every collector is invoked exactly once.
C7_Original ==
    \A t \in TaskIds :
        (startCall = "gather" /\ loops[t].pc = "collecting" /\ loops[t].passes = 1)
            => \A c \in DOMAIN loops[t].inv : InvocationsBeforeFirstSleep(t, c) = 1

\* C8 as stated: once the manager has been running and is not any more,
\* nothing brings it back to running.
C8_Original == [][(nstarts >= 1 /\ ~running) => ~running']_vars

\* C8: the manager goes from stopped to running and back any number of
\* times: only start() makes it running, on a manager that is not, and it
\* then starts one new loop per non-empty tier; only stop() makes it not
\* running.
C8_RestartableLifecycle ==
    [][ /\ (~running /\ running')
              => /\ startCall = "idle" /\ startCall' = "gather"
                 /\ nstarts' = nstarts + 1
                 /\ Len(tasks') = Cardinality(NonEmptyTiers)
                 /\ \A i \in DOMAIN tasks' : loops'[tasks'[i]].pc = "created"
        /\ (running /\ ~running')
              => /\ stopCall.pc = "idle"
                 /\ \/ stopCall'.pc = "gather"
                    \/ lastCall'.op = "stop"
                 /\ \A i \in DOMAIN tasks :
                        Alive(loops[tasks[i]]) => loops'[tasks[i]].cancel
      ]_vars

\* the manager runs for the second time, with loops
C8_Witness ==
    /\ running
    /\ nstarts = 2
    /\ tasks # <<>>

\* C9: get_status() is a pure read: whenever it is called it changes
\* nothing of the manager, of the tasks or of the metrics, and it returns
\* the running flag, the collector names of every tier and the interval of
\* every tier.
C9_GetStatusPure ==
    [][ lastCall'.op = "get_status"
           => /\ UNCHANGED <<collectors, settings, running, tasks, loops,
                             startCall, initPass, stopCall, metrics, clock,
                             nstarts>>
              /\ lastCall'.ret =
                    << [running    |-> running,
                        collectors |-> [tier \in TierSet |-> collectors[tier]],
                        intervals  |-> [tier \in TierSet |-> settings[tier]]] >>
      ]_vars

\* get_status() has returned while stop() awaits a loop that is in a pass
C9_Witness ==
    /\ lastCall.op = "get_status"
    /\ stopCall.pc = "gather"
    /\ \E t \in TaskIds : loops[t].pc = "collecting"
    /\ lastCall.ret[1].running = FALSE

\* C10: when _collect_impl raises, collect() adds exactly 1 to the error
\* counter of (collector name, subsystem, exception class name), leaves every
\* other child of the counter, the last-success gauge and the duration
\* histogram as they are, and its caller gets the same exception.
C10_ErrorPath ==
    [][ /\ \A t \in TaskIds : \A c \in DOMAIN loops[t].inv :
              (loops[t].inv[c] = "running" /\ loops'[t].inv[c] \in ErrorTypes)
                  => /\ metrics'.errors =
                          [metrics.errors EXCEPT
                              ![<<c, get_subsystem_name(c), loops'[t].inv[c]>>] = @ + 1]
                     /\ metrics'.last_success = metrics.last_success
                     /\ metrics'.duration = metrics.duration
        /\ \A c \in Instances :
              (initPass[c] = "running" /\ initPass'[c] \in ErrorTypes)
                  => /\ metrics'.errors =
                          [metrics.errors EXCEPT
                              ![<<c, get_subsystem_name(c), initPass'[c]>>] = @ + 1]
                     /\ metrics'.last_success = metrics.last_success
                     /\ metrics'.duration = metrics.duration
      ]_vars

\* a collect() call has raised after an earlier one of the same collector
\* had succeeded
C10_Witness ==
    \E t \in TaskIds : \E c \in DOMAIN loops[t].inv :
        /\ loops[t].inv[c] \in ErrorTypes
        /\ metrics.errors[ErrorLabels(c, loops[t].inv[c])] = 1
        /\ metrics.last_success[c] > 0

(***************************************************************************)
(* Properties of the collectors                                            *)
(***************************************************************************)
Max(a, b) == IF a >= b THEN a ELSE b

\* the step in which collect() returns or raises
ReturnStep == run.pc = "return" /\ run'.pc = "idle"

\* the step in which the detail call of a service ends
DetailStep == run.pc = "detail" /\ run' # run

\* the series of an instrument for a service
SeriesOf(g, name, service) == {k \in DOMAIN g : k[1] = name /\ k[2][1] = service}

\* C11: when _collect_impl returns normally, collect() observes the duration
\* histogram of the collector exactly once, sets its last-success gauge to the
\* time of the return, changes no error counter and returns without raising.
C11_SuccessPath ==
    [][(ReturnStep /\ run.impl = "ok") =>
          /\ metrics'.duration =
                [metrics.duration EXCEPT ![DurationLabels(run.collector)] = @ + 1]
          /\ metrics'.last_success =
                [metrics.last_success EXCEPT ![run.collector] = clock]
          /\ metrics'.errors = metrics.errors
          /\ run'.result = "ok"]_vars

C11_Witness ==
    /\ run.pc = "idle"
    /\ run.result = "ok"
    /\ \E c \in Instances :
          /\ metrics.duration[DurationLabels(c)] = 1
          /\ metrics.last_success[c] = clock
          /\ \A e \in ErrorTypes : metrics.errors[ErrorLabels(c, e)] = 0

\* C12: once the listing call has returned its ids, the detail method is
\* called for every id in the order of the listing whichever of them fail, the
\* instruments of every id for which it did not fail have a sample, and
\* collect() returns without raising.
C12_PerEntityIsolation ==
    /\ [](run.listed =>
            /\ run.issued = SubSeq(run.services, 1, Len(run.issued))
            /\ run.failed \subseteq Range(run.issued)
            /\ \A id \in Range(run.issued) \ run.failed :
                  \A name \in ServiceGauges(run.collector) :
                     SeriesOf(gauges, name, id) # {}
            /\ run.pc = "return" => (run.issued = run.services /\ run.impl = "ok"))
    /\ [][(ReturnStep /\ run.listed) => run'.result = "ok"]_vars

C12_Witness ==
    /\ run.pc = "return"
    /\ run.n = 1
    /\ Len(run.services) = 2
    /\ run.failed = {run.services[1]}
    /\ run.issued = run.services
    /\ \A name \in ServiceGauges(run.collector) :
          /\ SeriesOf(gauges, name, run.services[2]) # {}
          /\ SeriesOf(gauges, name, run.services[1]) = {}

\* _collect_impl has ended with the exception of the listing call
ListingFailed == run.pc = "return" /\ ~run.listed /\ run.answer.raised

\* what collect() does with an exception that leaves _collect_impl, and the
\* fan-out of the tier with it: the error counter of its class counts it, the
\* gather of collect_tier takes it as a result and the loop goes to sleep
Propagated ==
    /\ run'.result = run.answer.error
    /\ metrics'.errors =
          [metrics.errors EXCEPT ![ErrorLabels(run.collector, run.answer.error)] = @ + 1]
    /\ metrics'.duration = metrics.duration
    /\ LET tier == CHOOSE t \in TierSet : run.collector \in Range(collectors[t])
           inv  == [c \in Range(collectors[tier]) |-> run'.result]
           loop == [create_task(tier) EXCEPT !.pc = "collecting", !.inv = inv]
       IN  /\ gather(inv).done
           /\ ~gather(inv).raised
           /\ AfterCollectTier(loop, gather(inv)).pc = "sleeping"

\* C13 as stated: whenever the listing call of a per-entity collector fails,
\* the exception leaves collect(), counted, and the fan-out discards it.
C13_Original == [][(ReturnStep /\ ListingFailed) => Propagated]_vars

\* C13: the exception of a failed listing call leaves collect(), counted, and
\* the fan-out discards it, except that TelephonyInfoCollector takes an
\* exception whose message holds "500" or "Internal Server Error" for an
\* account without telephony: its collect() then returns normally and counts
\* a success and no error.
C13_ListingFailurePropagates ==
    [][(ReturnStep /\ ListingFailed) =>
          IF run.collector = "TelephonyInfoCollector" /\ Has500(run.answer.msg)
          THEN /\ run'.result = "ok"
               /\ metrics'.errors = metrics.errors
               /\ metrics'.duration # metrics.duration
          ELSE Propagated]_vars

C13_Witness ==
    /\ run.pc = "idle"
    /\ run.result = "CHAOSAPIError"
    /\ \E c \in Instances : metrics.errors[ErrorLabels(c, "CHAOSAPIError")] = 1
    /\ Sum(metrics.duration) = 0

\* C14 as stated: every failure of a detail call that _collect_impl catches
\* and skips adds to the error counter of the collector, so that a run counts
\* at least as many errors as it has skipped services.
C14_Original ==
    [][ReturnStep =>
          Sum(metrics'.errors) >= Sum(metrics.errors) + Cardinality(run.failed)]_vars

\* the service whose detail call is awaited, and the labels its quota and
\* usage samples get from the answer d
Polled == run.services[run.next]

ByteLabels(d) == <<Polled, str(Get(d, "login", Txt(control_login)))>>

\* the value holds a number: a number or a string float() parses
IsNumeric(value) == value.t \in {"number", "numstr"}

\* C15 as stated: when the answer of the quota call holds a total and a
\* remaining value and no used value, the used gauge of the service is set to
\* max(total - remaining, 0) and, the total not being zero, the percentage
\* gauge to used / total * 100.
C15_Original ==
    [][(/\ DetailStep
        /\ run.collector = "BroadbandQuotaCollector"
        /\ ~run'.answer.raised
        /\ {"quota", "remaining"} \subseteq DOMAIN run'.answer.data
        /\ "used" \notin DOMAIN run'.answer.data
        /\ IsNumeric(run'.answer.data["quota"])
        /\ IsNumeric(run'.answer.data["remaining"]))
       => LET d         == run'.answer.data
              total     == d["quota"].v
              remaining == d["remaining"].v
              used      == Max(total - remaining, 0)
              usedKey   == <<"aaisp_broadband_quota_used_bytes", ByteLabels(d)>>
              pctKey    == <<"aaisp_broadband_quota_percentage", ByteLabels(d)>>
          IN  /\ usedKey \in DOMAIN gauges'
              /\ gauges'[usedKey] = used
              /\ total # 0 => (/\ pctKey \in DOMAIN gauges'
                               /\ gauges'[pctKey] = (used * 100) \div total)]_vars

\* the gauges of the broadband collectors that publish a number of the
\* answer, each with the fields of the answer it is read from, in the order
\* they are tried, and the number of labels of its series
NumberGauges(c) ==
    CASE c = "BroadbandQuotaCollector" ->
             {<<"aaisp_broadband_quota_total_bytes", <<"quota">>, 2>>,
              <<"aaisp_broadband_quota_used_bytes", <<"used">>, 2>>,
              <<"aaisp_broadband_quota_remaining_bytes", <<"remaining">>, 2>>}
      [] c = "BroadbandInfoCollector"  ->
             {<<"aaisp_broadband_line_sync_download_bps", <<"sync_down">>, 3>>,
              <<"aaisp_broadband_line_sync_upload_bps", <<"sync_up">>, 3>>,
              <<"aaisp_broadband_throughput_download_bps", <<"throughput_down">>, 3>>,
              <<"aaisp_broadband_throughput_upload_bps", <<"throughput_up">>, 3>>}
      [] c = "BroadbandUsageCollector" ->
             {<<"aaisp_broadband_usage_download_bytes", <<"download", "download_bytes">>, 2>>,
              <<"aaisp_broadband_usage_upload_bytes", <<"upload", "upload_bytes">>, 2>>}
      [] OTHER -> {}

\* the answer d holds no number for a gauge read from these fields
NoNumber(d, fields) ==
    LET present == {i \in DOMAIN fields : fields[i] \in DOMAIN d}
    IN  \/ present = {}
        \/ ~IsNumeric(d[fields[CHOOSE i \in present : \A j \in present : i <= j]])

\* C16 as stated: when the answer of a detail call holds no number for a
\* broadband gauge, because the field is missing or is no number, the step
\* leaves the series of that gauge for the service as they were: a series
\* that was absent stays absent.
C16_Original ==
    [][(DetailStep /\ ~run'.answer.raised)
       => \A ng \in NumberGauges(run.collector) :
             NoNumber(run'.answer.data, ng[2])
             => /\ SeriesOf(gauges', ng[1], Polled) = SeriesOf(gauges, ng[1], Polled)
                /\ \A k \in SeriesOf(gauges, ng[1], Polled) : gauges'[k] = gauges[k]]_vars

\* a field of the answer holds a value of another type than the collector
\* takes it to have: a status that is no string, statistics that are no object
Malformed(d) ==
    \/ \E k \in DOMAIN d \cap {"status", "line_status", "sync_status"} : ~IsStr(d[k])
    \/ \E k \in DOMAIN d \cap {"call_stats", "statistics"} : d[k].t # "dict"

\* C17: an answer of a detail call that lacks fields is no failure: the
\* detail method does not raise for it, whichever fields are missing, and the
\* collect() call returns without raising and with the error counters as they
\* were. Before the first run this is checked of the detail method for the
\* full answer stripped down to each subset of its fields.
C17_MissingFieldsAreNoError ==
    /\ [](run.n = 0 =>
            \A S \in SUBSET DOMAIN FullAnswer(TheCollector) :
               ~collect_service(TheCollector, NoSeries, ServiceIds[1],
                                Ok([k \in S |-> FullAnswer(TheCollector)[k]])).failed)
    /\ [][(DetailStep /\ ~run'.answer.raised /\ ~Malformed(run'.answer.data))
          => run'.failed = run.failed]_vars
    /\ [][(ReturnStep /\ run.listed)
          => (run'.result = "ok" /\ metrics'.errors = metrics.errors)]_vars

C17_Witness ==
    /\ run.pc = "return"
    /\ run.collector = "BroadbandInfoCollector"
    /\ run.issued # <<>>
    /\ run.failed = {}
    /\ ~run.answer.raised
    /\ DOMAIN run.answer.data = {"login", "status"}
    /\ run.impl = "ok"

\* C18: a failed collection erases nothing. No step removes a series of the
\* registry; a step outside a detail call changes no sample; and the step of
\* a detail call changes no sample of another service, nor, when the call
\* fails, any sample at all. So the samples a service had before a run are
\* there, with their values, after a run in which the listing call or the
\* detail call of that service has failed.
C18_FailureKeepsSamples ==
    [][/\ DOMAIN gauges \subseteq DOMAIN gauges'
       /\ run.pc # "detail" => gauges' = gauges
       /\ run.pc = "detail" =>
             \A k \in DOMAIN gauges :
                (k[2][1] # Polled \/ Polled \in run'.failed) => gauges'[k] = gauges[k]]_vars

C18_Witness ==
    /\ run.n = 2
    /\ run.collector = "BroadbandQuotaCollector"
    /\ run.pc = "return"
    /\ run.failed # {}
    /\ \A id \in run.failed :
          \E k \in SeriesOf(gauges, "aaisp_broadband_quota_total_bytes", id) : gauges[k] = 10

(***************************************************************************)
(* Properties of the API client                                            *)
(***************************************************************************)
\* the tasks whose HTTP post is in flight
InFlight == {k \in Callers : calls[k].pc = "post"}

\* C19: whatever number of tasks (collect() calls of any collector and
\* tier) are inside request() of the one client at the same time, the number
\* of HTTP posts in flight never exceeds concurrency_limit, and the permits
\* of the one semaphore add up: those left, those of the posts in flight and
\* those handed to tasks that have not resumed yet are concurrency_limit.
C19_PostsBounded ==
    /\ Cardinality(InFlight) <= api_settings.concurrency_limit
    /\ semaphore.value >= 0
    /\ semaphore.value + Cardinality(InFlight)
         + Cardinality({i \in DOMAIN semaphore.waiters :
                           semaphore.waiters[i].st = "result"})
       = api_settings.concurrency_limit

\* more tasks are inside request() than there are permits: the posts in
\* flight are concurrency_limit and a task waits in acquire()
C19_Witness ==
    /\ Cardinality(InFlight) = api_settings.concurrency_limit
    /\ Cardinality({k \in Callers : calls[k].pc # "idle"})
         > api_settings.concurrency_limit
    /\ \E k \in Callers : calls[k].pc = "waiting"

(***************************************************************************)
(* Properties of the tier loops over the shared client                     *)
(***************************************************************************)
\* the tier of the collector of a collect() call
SiteTier(k) == CHOOSE tier \in TierSet : k[2] \in Range(collectors[tier])

\* the collect() calls whose post is in flight, and those that have been
\* handed a permit and have not resumed yet
Posting == {k \in Sites : calls[k].pc = "post"}

Handed == {k \in Sites : /\ calls[k].pc = "waiting"
                         /\ WaiterOf(semaphore, k).st = "result"}

\* the place of the call's future in the queue of the semaphore
QueuePos(k) ==
    CHOOSE i \in DOMAIN semaphore.waiters : semaphore.waiters[i].task = k

\* the collect() call waits in acquire() for a permit
Queued(k) ==
    /\ calls[k].pc = "waiting"
    /\ WaiterOf(semaphore, k).st = "pending"

\* the call waits for a permit while posts are in flight, all of them of
\* collectors of other tiers: its pass ends only after one of them has ended
BlockedByOtherTier(k) ==
    /\ Queued(k)
    /\ Posting # {}
    /\ \A a \in Posting : SiteTier(a) # SiteTier(k)

\* C20 as stated: no collect() call of a tier's loop is ever kept from going
\* on by calls of other tiers that are still in flight.
C20_Original == \A k \in Sites : k[1] # 0 => ~BlockedByOtherTier(k)

\* C20, amended: the loop tasks are independent in the scheduler (a loop that
\* has been created can start, a loop that sleeps can wake up, a pass whose
\* own collect() calls have finished can end, a collect() call in flight can
\* call request(), end its post or return, whatever the other loops and their
\* calls are doing), and the only thing a call ever waits for is a permit of
\* the shared limiter: it waits only while all concurrency_limit permits are
\* held by other calls, or while a call ahead of it in the queue has been
\* handed a permit and has not resumed yet.
C20_TiersCoupledOnlyByLimiter ==
    /\ \A t \in TaskIds :
          /\ loops[t].pc = "created" => ENABLED LoopStart(t)
          /\ (loops[t].pc = "sleeping" /\ clock < MaxClock) => ENABLED SleepDone(t)
          /\ (loops[t].pc = "collecting" /\ gather(loops[t].inv).done)
                => ENABLED PassDone(t)
    /\ \A k \in Sites :
          /\ (SiteRunning(k) /\ calls[k].pc = "idle" /\ nrequests < MaxRequests)
                => ENABLED SiteRequest(k)
          /\ (SiteRunning(k) /\ calls[k].pc = "idle" /\ Collects < MaxCollects)
                => ENABLED SiteCollectDone(k, "ok")
          /\ calls[k].pc = "post"
                => \A out \in TierOutcomes : ENABLED PostDone(k, out)
          /\ k \in Handed => ENABLED Acquired(k)
          /\ Queued(k)
                => \/ /\ semaphore.value = 0
                      /\ Cardinality((Posting \cup Handed) \ {k})
                           = api_settings.concurrency_limit
                   \/ \E h \in Handed : QueuePos(h) < QueuePos(k)

\* the fast tier's first pass is still going on, the post of its collector
\* in flight, while the medium tier's loop has ended a pass, slept and is in
\* its second pass
C20_Witness ==
    \E a, b \in TaskIds :
        /\ loops[a].tier = "fast" /\ loops[b].tier = "medium"
        /\ loops[a].pc = "collecting" /\ loops[a].passes = 1
        /\ <<a, "BroadbandQuotaCollector">> \in Posting
        /\ loops[b].pc = "collecting" /\ loops[b].passes = 2

(***************************************************************************)
(* Properties of the settings                                              *)
(***************************************************************************)
\* the value configured for a tier: the one given, or the default
Configured(kw, tier) ==
    IF kw[tier].t = "unset" THEN DEFAULT_INTERVALS[tier] ELSE kw[tier].v

\* the constructor is given a number for the tier that is outside its bounds
OutOfBounds(kw, tier) ==
    /\ kw[tier].t \in {"number", "numstr"}
    /\ \/ kw[tier].v < IntervalBounds[tier].ge
       \/ kw[tier].v > IntervalBounds[tier].le

\* C21: a construction of UpdateIntervals given an out-of-bounds value for
\* any tier (fast 10..3600, medium 60..3600, slow 300..7200) raises
\* ValidationError; on every object that was built, get_interval(T) returns
\* the value configured for T itself (the default 60/300/900 when none was
\* given), and that value lies within T's bounds.
C21_IntervalsValidated ==
    /\ (config.built /\ \E tier \in TierSet : OutOfBounds(config.kwargs, tier))
          => (~config.intervals.ok /\ lastCall.ret = <<"ValidationError">>)
    /\ (config.built /\ config.intervals.ok)
          => \A tier \in TierSet :
                /\ get_interval(config.intervals, tier)
                     = Configured(config.kwargs, tier)
                /\ get_interval(config.intervals, tier) >= IntervalBounds[tier].ge
                /\ get_interval(config.intervals, tier) <= IntervalBounds[tier].le
    /\ lastCall.op = "get_interval"
          => lastCall.ret[2] = Configured(config.kwargs, lastCall.ret[1])

\* get_interval has answered for the slow tier of an object built with one
\* tier at its lower bound, one at its upper bound and one left to its default
C21_Witness ==
    /\ lastCall.op = "get_interval"
    /\ lastCall.ret = <<"slow", 7200>>
    /\ config.kwargs.fast = Num(10)
    /\ config.kwargs.medium = Unset
    /\ get_interval(config.intervals, "medium") = 300

(***************************************************************************)
(* Properties of the application                                           *)
(***************************************************************************)
\* a pair of credentials is complete
ControlPair == config.auth.control_login # "" /\ config.auth.control_password # ""

AccountPair == config.auth.account_number # "" /\ config.auth.account_password # ""

\* nothing of the exporter has been started
NothingStarted ==
    /\ app.client = "None"
    /\ ~app.collector_manager
    /\ ~running
    /\ nstarts = 0
    /\ Collects = 0
    /\ collectors = initialize_collectors({})

\* C22: validate_auth() raises exactly when neither the control pair (login
\* and password) nor the account pair (number and password) is complete,
\* and then the lifespan is left at once: no client has been started, no
\* manager built, no collection attempted, and nothing of it happens later.
C22_NoAuthAbortsStartup ==
    /\ app.pc # "created"
          => (app.pc = "aborted" <=> ~(ControlPair \/ AccountPair))
    /\ (validate_auth(config.auth) = "ValueError") <=> ~(ControlPair \/ AccountPair)
    /\ app.pc = "aborted" => NothingStarted

\* startup has been aborted with half a control pair and half an account
\* pair configured
C22_Witness ==
    /\ app.pc = "aborted"
    /\ lastCall = [op |-> "lifespan", ret |-> <<"ValueError">>]
    /\ config.auth.control_login # ""
    /\ config.auth.account_password # ""

\* the status of a health response is "healthy" exactly when the manager
\* exists, reports running and the client holds a connection
HealthStatusMatches(resp) ==
    /\ resp["status"].v \in {"healthy", "unhealthy"}
    /\ resp["status"].v = "healthy"
          <=> (app.collector_manager /\ running /\ app.client = "connected")

\* some field of a health response carries the collectors' error counts
SurfacesErrorCounts(resp) ==
    \E k \in DOMAIN resp :
        \/ resp[k].t = "error_counts"
        \/ resp[k].t = "manager_status" /\ "errors" \in DOMAIN resp[k].v

\* C28: every health response has status "healthy" exactly when the manager
\* exists, is running and the client is connected, "unhealthy" otherwise,
\* and carries the collectors' error counts.
C28_Original ==
    lastCall.op = "health"
        => /\ HealthStatusMatches(lastCall.ret[1])
           /\ SurfacesErrorCounts(lastCall.ret[1])

(***************************************************************************)
(* Properties of the instruments and registries                            *)
(***************************************************************************)
\* a collector construction has been attempted
Constructed == instances # {} \/ lastCall.op = "construct"

\* C23: once collectors have been constructed, of whatever classes, in
\* whatever order and on whatever registry, each of the three shared
\* instruments (duration histogram, error counter, last-success gauge) has
\* been created exactly once, is registered in one registry, and is the
\* instrument every collector instance records into.
C23_SharedCreatedOnce ==
    \A attr \in Range(SharedAttrs) :
        /\ shared[attr].created <= 1
        /\ Constructed =>
              /\ shared[attr].created = 1
              /\ shared[attr].inst # NoInstrument
              /\ Cardinality({r \in Registries : SharedMetric(attr) \in registries[r]}) = 1
              /\ SharedMetric(attr) \in registries[shared[attr].inst.registry]
              /\ \A i, j \in instances :
                    instrument_of(i, attr) = instrument_of(j, attr)

\* collectors of three classes or more exist, on both registries
C23_Witness ==
    /\ Cardinality({i.cls : i \in instances}) >= 3
    /\ {i.registry : i \in instances} = Registries
    /\ \A attr \in Range(SharedAttrs) : shared[attr].created = 1

\* the instruments of the exporter itself
ExporterMetrics ==
    AppMetrics \cup {SharedMetric(attr) : attr \in Range(SharedAttrs)}
        \cup UNION {Range(OwnMetrics(cls)) : cls \in CollectorClasses}

\* the registry holds instruments of the exporter only
OnlyExporterMetrics(r) == registries[r] \subseteq ExporterMetrics

\* the call that ends with this step raises
Raised == lastCall'.ret[3] = "ValueError"

\* on a registry that holds the exporter's instruments only, a construction
\* succeeds when the class has no instance there and fails, with nothing
\* changed, when it has one
ConstructOnce(cls, r) ==
    IF [cls |-> cls, registry |-> r] \in instances
    THEN Raised /\ registries' = registries /\ shared' = shared /\ instances' = instances
    ELSE /\ ~Raised
         /\ instances' = instances \cup {[cls |-> cls, registry |-> r]}
         /\ Range(OwnMetrics(cls)) \subseteq registries'[r]

\* C24 as stated: a creation under a name that is registered fails and
\* changes nothing, a creation under a name that differs from every
\* registered name succeeds; every first construction of a class on a
\* registry succeeds and every second one fails.
C24_Original ==
    [][ /\ lastCall'.op = "create" =>
              LET m == lastCall'.ret[1]
              IN  IF \E x \in registries["app"] : x.name = m.name
                  THEN Raised /\ registries' = registries
                  ELSE ~Raised /\ m \in registries'["app"]
        /\ lastCall'.op = "construct" =>
              ConstructOnce(lastCall'.ret[1], lastCall'.ret[2]) ]_vars

\* C24 (amended): a creation fails, and leaves the registry as it was,
\* exactly when one of the series the instrument claims (a gauge its name; a
\* counter its name without "_total", with "_total" and with "_created") is
\* already claimed in the same registry, so a registered name fails every
\* time and instruments with disjoint series never fail; on a registry that
\* holds the exporter's instruments only, every first construction of a
\* class succeeds and every second one fails and changes nothing.
C24_DuplicateSeriesRefused ==
    [][ /\ lastCall'.op = "create" =>
              LET m == lastCall'.ret[1]
              IN  /\ (\E x \in registries["app"] : x.name = m.name) => Raised
                  /\ IF \E x \in registries["app"] : Series(x) \cap Series(m) # {}
                     THEN Raised /\ registries' = registries
                     ELSE ~Raised /\ registries'["app"] = registries["app"] \cup {m}
        /\ (lastCall'.op = "construct" /\ OnlyExporterMetrics(lastCall'.ret[2])) =>
              ConstructOnce(lastCall'.ret[1], lastCall'.ret[2]) ]_vars

\* the five classes have been constructed on the application's registry,
\* which holds nothing foreign, and a further instrument has been refused
C24_Witness ==
    /\ \A cls \in CollectorClasses : [cls |-> cls, registry |-> "app"] \in instances
    /\ registries["app"] = ExporterMetrics
    /\ lastCall.op = "create"
    /\ lastCall.ret[3] = "ValueError"

(***************************************************************************)
(* Tier membership                                                         *)
(***************************************************************************)
\* the tiers whose registry list holds the class, once per entry
RegisteredUnder(cls) ==
    {e \in TierSet \X (1..Cardinality(CollectorClasses)) :
        /\ e[2] \in DOMAIN collector_registry[e[1]]
        /\ collector_registry[e[1]][e[2]] = cls}

\* C25: every collector class is registered under exactly one tier, every
\* collector of the manager sits in the list of the tier its class was
\* registered under, and no step of start(), stop() or a collection pass
\* changes which collectors belong to which tier.
C25_TierMembershipFixed ==
    /\ [](/\ \A cls \in CollectorClasses :
                /\ Cardinality(RegisteredUnder(cls)) = 1
                /\ \A e \in RegisteredUnder(cls) : e[1] = update_tier(cls)
          /\ \A tier \in TierSet : \A i \in DOMAIN collectors[tier] :
                /\ update_tier(collectors[tier][i]) = tier
                /\ \A other \in TierSet : \A j \in DOMAIN collectors[other] :
                      collectors[other][j] = collectors[tier][i]
                          => other = tier /\ j = i)
    /\ [][collectors' = collectors]_vars

\* the manager holds collectors of two tiers, has been started, has run
\* collections and has been stopped again
C25_Witness ==
    /\ Cardinality({tier \in TierSet : collectors[tier] # <<>>}) = 2
    /\ nstarts >= 1
    /\ Collects >= 1
    /\ ~running
    /\ stopCall.pc = "idle"

(***************************************************************************)
(* The enable flags                                                        *)
(***************************************************************************)
\* C26: with the flag of its category false, a collector of any of the
\* five classes issues no request during collect(), and its collect()
\* calls end successfully with no error counted.
C26_Original ==
    ~enabled =>
        /\ run.pc \notin {"listing", "detail"}
        /\ run.issued = <<>>
        /\ ~run.listed
        /\ run.result \in {"none", "ok"}
        /\ \A l \in DOMAIN metrics.errors : metrics.errors[l] = 0

(***************************************************************************)
(* The telephony counters                                                  *)
(***************************************************************************)
CounterNames ==
    {"aaisp_telephony_calls_total", "aaisp_telephony_call_duration_seconds_total",
     "aaisp_telephony_call_cost_total"}

\* the value a series has, 0 before its first sample
Value(g, k) == IF k \in DOMAIN g THEN g[k] ELSE 0

\* what a field of the call statistics, under its name or its other name,
\* is to add: its value when it is a number, or a string that reads as
\* one, above zero; nothing otherwise
Amount(stats, name, other) ==
    LET v == IF name \in DOMAIN stats THEN stats[name]
             ELSE IF other \in DOMAIN stats THEN stats[other] ELSE Null
    IN  IF v.t \in {"number", "numstr"} /\ v.v > 0 THEN v.v ELSE 0

\* the detail call of a service has ended with an answer whose call
\* statistics are an object
TelephonyAnswered ==
    /\ run.collector = "TelephonyInfoCollector"
    /\ run.pc = "detail"
    /\ Len(run'.issued) = Len(run.issued) + 1
    /\ ~run'.answer.raised
    /\ Get(run'.answer.data, "call_stats",
           Get(run'.answer.data, "statistics", Dict(EmptyDict))).t = "dict"

C29_RetriesBounded ==
    /\ [](\A k \in Callers :
             /\ calls[k].retry_count <= api_settings.max_retries
             /\ calls[k].attempts <= calls[k].retry_count + 1
             /\ calls[k].attempts <= api_settings.max_retries + 1)
    /\ [][\A k \in Callers :
             /\ (calls[k].pc # "backoff" /\ calls'[k].pc = "backoff")
                   => /\ calls[k].pc = "post"
                      /\ calls[k].retry_count < api_settings.max_retries
                      /\ api_requests_total'[0] = api_requests_total[0] + 1
                      /\ PostDone(k, [kind |-> "timeout", status_code |-> 0, body |-> "none"])
             /\ calls'[k].retry_count > calls[k].retry_count
                   => /\ calls[k].pc = "backoff"
                      /\ calls'[k].retry_count = calls[k].retry_count + 1
             /\ (PostDone(k, [kind |-> "timeout", status_code |-> 0, body |-> "none"])
                 /\ calls[k].retry_count = api_settings.max_retries)
                   => /\ calls'[k].pc = "idle"
                      /\ calls'[k].result = "CHAOSAPIError"]_vars

\* a call has timed out twice, with max_retries = 1, and has ended with
\* CHAOSAPIError after its second post
C29_Witness ==
    \E k \in Callers :
        /\ api_settings.max_retries = 1
        /\ calls[k].pc = "idle"
        /\ calls[k].attempts = 2
        /\ calls[k].retry_count = 1
        /\ calls[k].result = "CHAOSAPIError"
        /\ api_requests_total[0] = 2

\* the exception request() raises for a post that ends with out, "none" for
\* a timeout and for a good answer
Classified(out) ==
    CASE out.kind = "request_error" -> "CHAOSAPIError"
      [] out.kind = "timeout" -> "none"
      [] out.status_code = 401 -> "CHAOSAuthError"
      [] out.status_code = 429 -> "CHAOSRateLimitError"
      [] out.status_code # 200 -> "CHAOSAPIError"
      [] out.body = "error" -> "CHAOSAPIError"
      [] OTHER -> "none"

\* C30: a post that ends with HTTP 401 makes request() raise CHAOSAuthError,
\* with 429 CHAOSRateLimitError, with any other error status, a transport
\* error other than a timeout, or a body with an "error" key CHAOSAPIError;
\* the call ends there, without a further attempt and without data; only a
\* timeout is followed by a backoff sleep.
C30_FailuresClassified ==
    [][\A k \in Callers :
          (calls[k].pc = "post" /\ calls'[k].pc # "post") =>
              \A out \in PostOutcomes :
                  PostDone(k, out) =>
                      /\ Classified(out) # "none" =>
                            /\ calls'[k].pc = "idle"
                            /\ calls'[k].result = Classified(out)
                            /\ calls'[k].attempts = calls[k].attempts
                            /\ calls'[k].retry_count = calls[k].retry_count
                      /\ calls'[k].pc = "backoff" => out.kind = "timeout"
                      /\ calls'[k].result = "data"
                            => /\ out.kind = "response"
                               /\ out.status_code = 200
                               /\ out.body = "data"]_vars

\* with a retry allowed, a call has ended with CHAOSRateLimitError after one
\* post, and another with CHAOSAuthError
C30_Witness ==
    /\ api_settings.max_retries = 1
    /\ \E k \in Callers :
          /\ calls[k].pc = "idle"
          /\ calls[k].attempts = 1
          /\ calls[k].result = "CHAOSRateLimitError"
    /\ \E k \in Callers :
          /\ calls[k].pc = "idle"
          /\ calls[k].attempts = 1
          /\ calls[k].result = "CHAOSAuthError"

(***************************************************************************)
(* C31: stop() always terminates. A stop() call that awaits the loop tasks *)
(* eventually returns, whether the loops it has cancelled are asleep, not  *)
(* started yet or in the middle of a collection pass with collect() calls  *)
(* in flight.                                                              *)
(***************************************************************************)
\* a cancelled loop is in a pass with a collect() call in flight
CancelledInPass(t) ==
    /\ loops[t].cancel
    /\ loops[t].pc = "collecting"
    /\ \E c \in DOMAIN loops[t].inv : loops[t].inv[c] = "running"

C31_StopTerminates == (stopCall.pc = "gather") ~> (lastCall = Returned("stop"))

\* stop() awaits a loop it has cancelled in the middle of a pass
C31_Witness ==
    /\ stopCall.pc = "gather"
    /\ \E t \in stopCall.await : CancelledInPass(t)

(***************************************************************************)
(* C32: in the telephony collectors a failure of the listing or rate-card  *)
(* call whose message contains "500" or "Internal Server Error" is not     *)
(* fatal: _collect_impl returns normally and collect() records a success   *)
(* and counts no error; any other failure of that call is raised again.    *)
(* So the only thing a telephony collector's _collect_impl raises is a     *)
(* failure of that call without "500" in its message.                      *)
(***************************************************************************)
TelephonyCollectors == {"TelephonyInfoCollector", "TelephonyRateCardCollector"}

\* the listing or rate-card call of the collect() call in flight has failed
CallFailed == run.answer.raised /\ ~run.listed

InProgress(c) ==
    (IF initPass[c] = "running" THEN 1 ELSE 0)
        + Cardinality({t \in TaskIds : /\ loops[t].pc = "collecting"
                                       /\ c \in DOMAIN loops[t].inv
                                       /\ loops[t].inv[c] = "running"})

C33_Original == \A c \in Instances : InProgress(c) <= 1

(***************************************************************************)
(* C34: under any interleaving of start() and stop() calls, a start() made *)
(* while a stop() awaits the loops included, at most one polling loop per  *)
(* tier is alive and every alive loop task is in the manager's task list,  *)
(* so that a stop() that has returned leaves no loop running.              *)
(***************************************************************************)
\* a loop task that is alive and that no stop() has cancelled
Polling(t) == Alive(loops[t]) /\ ~loops[t].cancel

C34_Original ==
    /\ \A tier \in TierSet :
           Cardinality({t \in TaskIds : Polling(t) /\ loops[t].tier = tier}) <= 1
    /\ \A t \in TaskIds : Polling(t) => t \in Range(tasks)
    /\ lastCall = Returned("stop") => \A t \in TaskIds : ~Alive(loops[t])

(***************************************************************************)
(* The permits of the client's semaphore                                   *)
(***************************************************************************)
\* the permits release() has handed to a task waiting in acquire() that has
\* not resumed yet
HandedOver(sem) ==
    Cardinality({i \in DOMAIN sem.waiters : sem.waiters[i].st = "result"})

\* C35 as stated: whenever no post is in flight, the number of free permits
\* is concurrency_limit.
C35_Original ==
    InFlight = {} => semaphore.value = api_settings.concurrency_limit

\* C35: a request holds a permit only while its post is in flight. Every
\* exit from the post (response, timeout, transport error, cancellation)
\* gives the permit back, to the semaphore or straight to the oldest task
\* waiting for one; no permit is held during the backoff sleep; and whenever
\* no post is in flight and no waiting task has been handed a permit it has
\* not resumed with yet, the free permits are concurrency_limit.
C35_PermitOnlyDuringPost ==
    /\ [](InFlight = {} /\ HandedOver(semaphore) = 0
            => semaphore.value = api_settings.concurrency_limit)
    /\ [][\A k \in Callers :
            (calls[k].pc = "post" /\ calls'[k].pc # "post")
                => semaphore'.value + HandedOver(semaphore')
                     = semaphore.value + HandedOver(semaphore) + 1]_vars

\* a request sleeps before its retry with every permit free
C35_Witness ==
    /\ \E k \in Callers : calls[k].pc = "backoff"
    /\ InFlight = {}
    /\ semaphore.value = api_settings.concurrency_limit

(***************************************************************************)
(* C36: every HTTP attempt of request() that ends, with any status code, a *)
(* timeout or a transport error, and whether or not its body carries an    *)
(* API-level error, increments aaisp_api_requests_total exactly once.      *)
(***************************************************************************)
\* the post of task k ends in this step, and not by cancellation
AttemptEnds(k) ==
    /\ calls[k].pc = "post"
    /\ calls'[k].pc # "post"
    /\ calls'[k].result # "CancelledError"

C36_Original ==
    [][\A k \in Callers :
         AttemptEnds(k) => Sum(api_requests_total') = Sum(api_requests_total) + 1]_vars

(***************************************************************************)
(* C37: constructing the CollectorManager never raises because of a        *)
(* collector. A class whose constructor fails is left out of its tier's    *)
(* list, and every other registered class is constructed and placed in its *)
(* tier, in registration order: a class is in the list exactly when its    *)
(* own constructor succeeds on the registry as the manager found it.       *)
(***************************************************************************)
\* the constructor of cls succeeds on registry r as it is now
Constructible(cls, r) == MetricCollector(cls, r, shared, registries).ok

C37_FailedCollectorsSkipped ==
    [][lastCall'.op = "manager" =>
         /\ lastCall'.ret[2] = "ok"
         /\ \A tier \in TierSet :
                collectors'[tier] =
                    SelectSeq(get_collectors(tier),
                              LAMBDA cls : Constructible(cls, lastCall'.ret[1]))]_vars

\* a manager built with a class left out, a class registered after it in
\* its tier's list
C37_Witness ==
    /\ lastCall.op = "manager"
    /\ "TelephonyInfoCollector" \notin Instances
    /\ "BroadbandInfoCollector" \in Instances
    /\ "TelephonyRateCardCollector" \in Instances

(***************************************************************************)
(* C38: when stop() cancels a tier loop in the middle of a collection      *)
(* pass, the collect() calls the cancellation ends increment no error      *)
(* counter and update neither the last-success gauge nor the duration      *)
(* histogram.                                                              *)
(***************************************************************************)
C38_CancellationNotAccounted ==
    [][\A t \in TaskIds :
         (CancelledInPass(t) /\ loops'[t].pc = "done") => metrics' = metrics]_vars

\* a loop has been cancelled in its first pass with every collect() call of
\* the pass still in flight: the calls that have counted are those of
\* start()'s initial pass
C38_Witness ==
    /\ nstarts = 1
    /\ stopCall.pc = "gather"
    /\ \E t \in stopCall.await :
          /\ loops[t].pc = "done"
          /\ loops[t].passes = 1
          /\ loops[t].tier_result = "none"
    /\ Collects = Cardinality(Instances)

(***************************************************************************)
(* C39: _parse_bytes returns float(v) for every int or float v and for     *)
(* every string that parses as a number, returns 0.0 for every other input *)
(* (a string that is no number, None, any other type), and never raises.   *)
(***************************************************************************)
C39_Original ==
    lastCall.op = "parse_bytes" =>
        LET value == lastCall.ret[1]
            out   == lastCall.ret[2]
        IN  /\ ~out.raised
            /\ value.t \in {"number", "numstr"} => out.v = value.v
            /\ value.t \in {"str", "null", "dict"} => out.v = 0

====
